---- MODULE Spec2Model ----
(***************************************************************************)
(* Jhaveri FIE: the technical signal engine (agents/technical_signals.py)  *)
(* and the rule-based recommendation synthesizer (agents/mock_engine.py).  *)
(*                                                                         *)
(* Numbers.  Sub-scores are whole points (every path of                    *)
(* compute_composite_score produces an integer, the halving included, see  *)
(* TrendEvenBeforeHalving).  The composite score is kept in tenths of a    *)
(* point, the precision of round(composite, 1).  Percentages of a          *)
(* portfolio are kept in tenths of a percent, money in whole rupees.       *)
(* Text that the code upper-cases, searches or parses is a sequence of     *)
(* one-character strings; labels that are only compared are strings.       *)
(***************************************************************************)
EXTENDS Integers, Sequences, FiniteSets, TLC

VARIABLES
    pc,                 \* position of the operation under way
    row,                \* the indicator snapshot given to compute_composite_score
    scores,             \* the dict compute_composite_score returns
    df_len,             \* len(df) of the fetched price history
    analysis,           \* the dict analyze_instrument returns
    fm_directives,      \* arguments of mock_generate_recommendations
    technical_signals,
    sector_signals,
    client,
    holdings,
    result,             \* the dict mock_generate_recommendations / run_pipeline returns
    env,                \* what the market-data source and the database do per call
    unique_instruments, \* run_pipeline: the symbols to analyse
    grouped,            \* run_pipeline: clients with their holdings
    all_results,        \* what generate_recommendations_batch has appended
    idx,                \* position of the loop under way
    df                  \* the price frame's columns, one sequence per column

scoreVars == <<row, scores>>
analyzeVars == <<df_len, analysis, df>>
recVars == <<fm_directives, technical_signals, sector_signals, client, holdings, result>>
pipeVars == <<env, unique_instruments, grouped, all_results, idx>>
vars == <<pc, row, scores, df_len, analysis, fm_directives, technical_signals,
          sector_signals, client, holdings, result, env, unique_instruments,
          grouped, all_results, idx, df>>

\* The value of a variable an operation has not produced yet / does not use.
None == "None"

(***************************************************************************)
(* config/settings.py                                                      *)
(***************************************************************************)
rsi_oversold == 30
rsi_overbought == 70
stoch_rsi_oversold == 20
stoch_rsi_overbought == 80
\* Composite weights, in tenths (0.30, 0.30, 0.20, 0.10, 0.10).
weight_trend == 3
weight_momentum == 3
weight_volume == 2
weight_volatility == 1
weight_relative_strength == 1
\* SIGNAL_THRESHOLDS, in points.
TH_STRONG_BUY == 60
TH_BUY == 20
TH_HOLD_LOWER == -20
TH_SELL == -60

(***************************************************************************)
(* Indicator snapshots (one row of the DataFrame).  A numeric cell is a    *)
(* number, NaN, or absent from the row; a label cell is a string or        *)
(* absent ("MISSING").                                                     *)
(***************************************************************************)
Num(x) == [kind |-> "num", v |-> x]
NaN == [kind |-> "nan", v |-> 0]
Missing == [kind |-> "missing", v |-> 0]

\* row.get(field, default) for a numeric cell
GetNum(r, f, default) == IF r[f].kind = "missing" THEN Num(default) ELSE r[f]
\* row.get(field, default) for a label cell
GetLabel(r, f, default) == IF r[f] = "MISSING" THEN default ELSE r[f]
\* Python truthiness of a float: 0 is falsy, NaN is truthy
Truthy(x) == x.kind = "nan" \/ x.v # 0
isnan(x) == x.kind = "nan"
\* the guard `x and not np.isnan(x)`
Usable(x) == Truthy(x) /\ ~isnan(x)

Clamp(x) == IF x > 100 THEN 100 ELSE IF x < -100 THEN -100 ELSE x

\* trend before the ADX adjustment (price vs 200DMA, golden/death cross)
TrendBase(r) ==
    LET t1 == IF GetLabel(r, "price_vs_200dma", None) = "ABOVE" THEN 30 ELSE -30
        c == GetLabel(r, "dma_cross", None)
    IN  IF c = "GOLDEN_CROSS" THEN t1 + 40
        ELSE IF c = "DEATH_CROSS" THEN t1 - 40
        ELSE t1

\* trend *= 0.5; TrendBase is even on every path, so the half is a whole number
Halve(t) == t \div 2

TrendScore(r) ==
    LET t == TrendBase(r)
        adx == GetNum(r, "adx", 0)
        t2 == IF Usable(adx)
                THEN IF adx.v > 30 THEN (IF t > 0 THEN t + 20 ELSE t - 20)
                     ELSE IF adx.v < 15 THEN Halve(t)
                     ELSE t
                ELSE t
    IN  Clamp(t2)

MomentumScore(r) ==
    LET rsi == GetNum(r, "rsi_14", 50)
        m1 == IF Usable(rsi)
                THEN IF rsi.v < rsi_oversold THEN 40
                     ELSE IF rsi.v > rsi_overbought THEN -40
                     ELSE IF rsi.v < 45 THEN 15
                     ELSE IF rsi.v > 55 THEN -15
                     ELSE 0
                ELSE 0
        macd_cross == GetLabel(r, "macd_crossover", "NEUTRAL")
        m2 == IF macd_cross = "BULLISH" THEN m1 + 35
              ELSE IF macd_cross = "BEARISH" THEN m1 - 35
              ELSE m1
        stoch == GetNum(r, "stoch_rsi", 50)
        m3 == IF Usable(stoch)
                THEN IF stoch.v < stoch_rsi_oversold THEN m2 + 25
                     ELSE IF stoch.v > stoch_rsi_overbought THEN m2 - 25
                     ELSE m2
                ELSE m2
    IN  Clamp(m3)

VolumeScore(r) ==
    LET vol_signal == GetLabel(r, "volume_signal", "NORMAL")
        obv_trend == GetLabel(r, "obv_trend", "FLAT")
        v == IF vol_signal \in {"SURGE", "HIGH"} /\ obv_trend = "RISING" THEN 60
             ELSE IF vol_signal \in {"SURGE", "HIGH"} /\ obv_trend = "FALLING" THEN -40
             ELSE IF obv_trend = "RISING" THEN 25
             ELSE IF obv_trend = "FALLING" THEN -25
             ELSE 0
    IN  Clamp(v)

VolatilityScore(r) ==
    LET bb_pos == GetLabel(r, "bb_position", "MIDDLE")
        v == IF bb_pos = "LOWER" THEN 40
             ELSE IF bb_pos = "UPPER" THEN -40
             ELSE 0
    IN  Clamp(v)

RelativeStrengthScore(r) ==
    LET pct_52h == GetNum(r, "pct_from_52w_high", 0)
        pct_52l == GetNum(r, "pct_from_52w_low", 0)
        s1 == IF Usable(pct_52h)
                THEN IF pct_52h.v > -5 THEN 40
                     ELSE IF pct_52h.v < -30 THEN -30
                     ELSE 0
                ELSE 0
        s2 == IF Usable(pct_52l) /\ pct_52l.v < 5 THEN s1 - 20 ELSE s1
    IN  Clamp(s2)

\* Mutant: the weights forgotten, the sub-scores simply added up.
Composite10_Unweighted(t, m, v, vv, rs) == 10 * (t + m + v + vv + rs)

\* The unrounded composite, in tenths of a point: sum of weight * sub-score.
Composite10(t, m, v, vv, rs) ==
    t * weight_trend + m * weight_momentum + v * weight_volume
      + vv * weight_volatility + rs * weight_relative_strength

\* Mutant: the thresholds compared strictly, so a composite exactly on a
\* threshold falls into the band below.
SignalOf_Strict(composite10) ==
    IF composite10 > TH_STRONG_BUY * 10 THEN "STRONG_BUY"
    ELSE IF composite10 > TH_BUY * 10 THEN "BUY"
    ELSE IF composite10 > TH_HOLD_LOWER * 10 THEN "HOLD"
    ELSE IF composite10 > TH_SELL * 10 THEN "SELL"
    ELSE "STRONG_SELL"

\* The signal ladder on the composite (tenths compared with 10 * threshold).
\* The code compares the unrounded float and reports round(composite, 1);
\* on every combination of sub-scores the scorer can produce the two agree
\* (the weighted sum of whole sub-scores is a whole number of tenths).
SignalOf(composite10) ==
    IF composite10 >= TH_STRONG_BUY * 10 THEN "STRONG_BUY"
    ELSE IF composite10 >= TH_BUY * 10 THEN "BUY"
    ELSE IF composite10 >= TH_HOLD_LOWER * 10 THEN "HOLD"
    ELSE IF composite10 >= TH_SELL * 10 THEN "SELL"
    ELSE "STRONG_SELL"

compute_composite_score(r) ==
    LET t == TrendScore(r)
        m == MomentumScore(r)
        v == VolumeScore(r)
        vv == VolatilityScore(r)
        rs == RelativeStrengthScore(r)
        composite == Composite10(t, m, v, vv, rs)
    IN  [trend_score |-> t,
         momentum_score |-> m,
         volume_score |-> v,
         volatility_score |-> vv,
         relative_strength_score |-> rs,
         composite_score |-> composite,     \* round(composite, 1), in tenths
         signal |-> SignalOf(composite)]

(***************************************************************************)
(* Snapshots the scorer is run on.                                         *)
(***************************************************************************)
\* Largest oscillator value drawn (RSI, StochRSI and ADX all live in 0..100).
MaxOsc == 100
\* Deepest drawdown from the 52-week high drawn, in percent.
MaxDrawdown == 31

\* The row of a DataFrame that compute_all_indicators returned untouched:
\* the OHLCV columns only, every indicator column absent.
BareRow ==
    [price_vs_200dma |-> "MISSING", dma_cross |-> "MISSING", adx |-> Missing,
     rsi_14 |-> Missing, macd_crossover |-> "MISSING", stoch_rsi |-> Missing,
     volume_signal |-> "MISSING", obv_trend |-> "MISSING",
     bb_position |-> "MISSING",
     pct_from_52w_high |-> Missing, pct_from_52w_low |-> Missing]

AdxValues == {NaN, Num(14), Num(20), Num(31)}
RsiValues == {NaN, Num(29), Num(44), Num(56), Num(MaxOsc)}
StochValues == {NaN, Num(19), Num(81)}
Pct52hValues == {Num(0), Num(-4), Num(-20), Num(-MaxDrawdown)}
Pct52lValues == {Num(4), Num(50)}

IndicatorRows ==
    [price_vs_200dma : {"ABOVE", "BELOW"},
     dma_cross : {"GOLDEN_CROSS", "DEATH_CROSS", "NONE"},
     adx : AdxValues,
     rsi_14 : RsiValues,
     macd_crossover : {"BULLISH", "BEARISH", "NEUTRAL"},
     stoch_rsi : StochValues,
     volume_signal : {"HIGH", "NORMAL"},
     obv_trend : {"RISING", "FALLING", "FLAT"},
     bb_position : {"UPPER", "LOWER", "MIDDLE"},
     pct_from_52w_high : Pct52hValues,
     pct_from_52w_low : Pct52lValues]

Rows == IndicatorRows \cup {BareRow}

(***************************************************************************)
(* Specification SpecScore: compute_composite_score on every snapshot.     *)
(***************************************************************************)
IdleScore == row = None /\ scores = None
IdleAnalyze == df_len = 0 /\ analysis = None /\ df = None
IdlePipe ==
    /\ env = None /\ unique_instruments = None /\ grouped = None
    /\ all_results = None /\ idx = 0
IdleRec ==
    /\ fm_directives = None /\ technical_signals = None /\ sector_signals = None
    /\ client = None /\ holdings = None /\ result = None

InitScore ==
    /\ pc = "score"
    /\ row \in Rows
    /\ scores = None
    /\ IdleAnalyze
    /\ IdleRec
    /\ IdlePipe

ComputeCompositeScore ==
    /\ pc = "score"
    /\ scores' = compute_composite_score(row)
    /\ pc' = "scored"
    /\ UNCHANGED <<row, analyzeVars, recVars, pipeVars>>

NextScore == ComputeCompositeScore

SpecScore == InitScore /\ [][NextScore]_vars

(***************************************************************************)
(* Claims about compute_composite_score (SpecScore).                       *)
(***************************************************************************)
InRange(x) == -100 <= x /\ x <= 100

\* C2: for every indicator snapshot, each of the five sub-scores and the
\* composite score lies in [-100, 100] (the composite is held in tenths).
C2_ScoresInRange ==
    pc = "scored" =>
        /\ InRange(scores.trend_score)
        /\ InRange(scores.momentum_score)
        /\ InRange(scores.volume_score)
        /\ InRange(scores.volatility_score)
        /\ InRange(scores.relative_strength_score)
        /\ -1000 <= scores.composite_score /\ scores.composite_score <= 1000

\* A snapshot with every bullish reading at once (and one with fields
\* missing is part of Rows): the momentum score sits on the upper limit.
C2_Witness ==
    /\ pc = "scored"
    /\ scores.momentum_score = 100
    /\ scores.trend_score = 90
    /\ scores.composite_score > 700

\* C3: the signal is the step function of the reported composite score:
\* >= 60 STRONG_BUY, [20, 60) BUY, [-20, 20) HOLD, [-60, -20) SELL,
\* below -60 STRONG_SELL; 60, 20, -20 and -60 belong to the upper band.
\* The bands are ordered, so a higher composite never gives a weaker signal.
C3_SignalStepFunction ==
    pc = "scored" =>
        LET c == scores.composite_score
            s == scores.signal
        IN  /\ (c >= 600) <=> (s = "STRONG_BUY")
            /\ (200 <= c /\ c < 600) <=> (s = "BUY")
            /\ (-200 <= c /\ c < 200) <=> (s = "HOLD")
            /\ (-600 <= c /\ c < -200) <=> (s = "SELL")
            /\ (c < -600) <=> (s = "STRONG_SELL")

\* A composite exactly on the 60 threshold, reported as STRONG_BUY.
C3_Witness ==
    /\ pc = "scored"
    /\ scores.composite_score = 600
    /\ scores.signal = "STRONG_BUY"

\* The halving of the trend is exact: the value halved is always even.
TrendEvenBeforeHalving == pc \in {"score", "scored"} => TrendBase(row) % 2 = 0

(***************************************************************************)
(* analyze_instrument: fetch, compute_all_indicators, score the last bar.  *)
(***************************************************************************)
\* compute_all_indicators needs this many bars (`len(df) < 50`).
MinBars == 50
\* Longest price history drawn.
MaxBars == 51

\* Python's None in a cell of the result.
NoneCell == [kind |-> "none", v |-> 0]

\* compute_all_indicators(df), seen through its last row: a DataFrame that
\* is empty or shorter than MinBars comes back as it was, with no indicator
\* column; otherwise the indicator columns are added (computed == the values
\* the indicator formulas give on the last bar).
compute_all_indicators(len, computed) ==
    IF len = 0 \/ len < MinBars THEN BareRow ELSE computed

\* `round(latest.get(f, d), n) if not np.isnan(latest.get(f, d)) else None`
ResultCell(r, f, default) ==
    LET x == GetNum(r, f, default) IN IF isnan(x) THEN NoneCell ELSE x

analyze_instrument(len, computed) ==
    IF len = 0 THEN [error |-> "No data available"]      \* df.empty
    ELSE LET latest == compute_all_indicators(len, computed)
             sc == compute_composite_score(latest)
         IN  [rsi_14 |-> ResultCell(latest, "rsi_14", 0),
              macd_crossover |-> GetLabel(latest, "macd_crossover", "NEUTRAL"),
              price_vs_200dma |-> GetLabel(latest, "price_vs_200dma", ""),
              dma_cross |-> GetLabel(latest, "dma_cross", "NONE"),
              bb_position |-> GetLabel(latest, "bb_position", "MIDDLE"),
              adx |-> ResultCell(latest, "adx", 0),
              obv_trend |-> GetLabel(latest, "obv_trend", "FLAT"),
              volume_signal |-> GetLabel(latest, "volume_signal", "NORMAL"),
              stoch_rsi |-> ResultCell(latest, "stoch_rsi", 0),
              pct_from_52w_high |-> ResultCell(latest, "pct_from_52w_high", 0),
              pct_from_52w_low |-> ResultCell(latest, "pct_from_52w_low", 0),
              trend_score |-> sc.trend_score,
              momentum_score |-> sc.momentum_score,
              volume_score |-> sc.volume_score,
              volatility_score |-> sc.volatility_score,
              relative_strength_score |-> sc.relative_strength_score,
              composite_score |-> sc.composite_score,
              signal |-> sc.signal]

\* Last-bar indicator values drawn for histories long enough to have them.
AnalyzeRows ==
    [price_vs_200dma : {"ABOVE", "BELOW"},
     dma_cross : {"GOLDEN_CROSS", "DEATH_CROSS", "NONE"},
     adx : AdxValues,
     rsi_14 : RsiValues,
     macd_crossover : {"BULLISH", "BEARISH", "NEUTRAL"},
     stoch_rsi : StochValues,
     volume_signal : {"NORMAL"},
     obv_trend : {"RISING"},
     bb_position : {"MIDDLE"},
     pct_from_52w_high : {Num(-4)},
     pct_from_52w_low : {Num(50)}]

InitAnalyze ==
    /\ pc = "analyze"
    /\ df_len \in 0..MaxBars
    /\ df = None
    /\ row \in (IF df_len < MinBars THEN {BareRow} ELSE AnalyzeRows)
    /\ analysis = None
    /\ scores = None
    /\ IdleRec
    /\ IdlePipe

AnalyzeInstrument ==
    /\ pc = "analyze"
    /\ analysis' = analyze_instrument(df_len, row)
    /\ pc' = "analyzed"
    /\ UNCHANGED <<row, scores, df_len, df, recVars, pipeVars>>

NextAnalyze == AnalyzeInstrument

SpecAnalyze == InitAnalyze /\ [][NextAnalyze]_vars

\* C6: with fewer than 50 bars the analysis returns an explicit
\* insufficient-data result: an error entry, no indicator value, no
\* composite score, no signal.  (The model has no raising path at all.)
C6_InsufficientDataResult ==
    (pc = "analyzed" /\ df_len < MinBars) =>
        /\ "error" \in DOMAIN analysis
        /\ "composite_score" \notin DOMAIN analysis
        /\ "signal" \notin DOMAIN analysis
        /\ "rsi_14" \notin DOMAIN analysis

\* What the code returns for a short, non-empty history: the scorer run on
\* a row without indicators, i.e. trend -30 and a composite of -9.0, HOLD.
C6_ShortHistoryScoredAsHold ==
    (pc = "analyzed" /\ 0 < df_len /\ df_len < MinBars) =>
        /\ "error" \notin DOMAIN analysis
        /\ analysis.composite_score = -90
        /\ analysis.signal = "HOLD"
        /\ analysis.rsi_14 = Num(0)

(***************************************************************************)
(* mock_engine.py: text, parsing and rounding helpers.                     *)
(***************************************************************************)
LowerCase == <<"a","b","c","d","e","f","g","h","i","j","k","l","m",
               "n","o","p","q","r","s","t","u","v","w","x","y","z">>
UpperCase == <<"A","B","C","D","E","F","G","H","I","J","K","L","M",
               "N","O","P","Q","R","S","T","U","V","W","X","Y","Z">>
UpperChar(c) ==
    IF \E i \in 1..26 : LowerCase[i] = c
      THEN UpperCase[CHOOSE i \in 1..26 : LowerCase[i] = c]
      ELSE c
\* str.upper()
upper(s) == [i \in 1..Len(s) |-> UpperChar(s[i])]
\* `sub in s` on strings
Contains(sub, s) ==
    \E i \in 0..(Len(s) - Len(sub)) : SubSeq(s, i + 1, i + Len(sub)) = sub

\* str.replace(c, "") for a single character c
RemoveChar(s, c) == SelectSeq(s, LAMBDA x : x # c)
\* str.replace("TO_", "")
RECURSIVE RemoveTO(_)
RemoveTO(s) ==
    IF Len(s) < 3 THEN s
    ELSE IF SubSeq(s, 1, 3) = <<"T", "O", "_">> THEN RemoveTO(SubSeq(s, 4, Len(s)))
    ELSE <<s[1]>> \o RemoveTO(Tail(s))

Digits == <<"0","1","2","3","4","5","6","7","8","9">>
IsDigit(c) == \E i \in 1..10 : Digits[i] = c
DigitVal(c) == (CHOOSE i \in 1..10 : Digits[i] = c) - 1

\* str.strip() as int() applies it (blanks only)
RECURSIVE Strip(_)
Strip(s) ==
    IF s = <<>> THEN s
    ELSE IF Head(s) = " " THEN Strip(Tail(s))
    ELSE IF s[Len(s)] = " " THEN Strip(SubSeq(s, 1, Len(s) - 1))
    ELSE s

\* the text after blanks and sign are taken off
IntBody(s) ==
    LET u == Strip(s)
    IN  IF u # <<>> /\ Head(u) \in {"+", "-"} THEN Tail(u) ELSE u
IntNegative(s) == LET u == Strip(s) IN u # <<>> /\ Head(u) = "-"

\* int(s) succeeds: blanks, an optional sign, then digits that may be
\* grouped by single underscores; anything else raises ValueError.
IntParses(s) ==
    LET b == IntBody(s)
    IN  /\ b # <<>>
        /\ IsDigit(b[1]) /\ IsDigit(b[Len(b)])
        /\ \A i \in 1..Len(b) : IsDigit(b[i]) \/ b[i] = "_"
        /\ \A i \in 1..(Len(b) - 1) : ~(b[i] = "_" /\ b[i + 1] = "_")

RECURSIVE DigitsValue(_)
DigitsValue(b) ==
    IF b = <<>> THEN 0
    ELSE IF b[Len(b)] = "_" THEN DigitsValue(SubSeq(b, 1, Len(b) - 1))
    ELSE 10 * DigitsValue(SubSeq(b, 1, Len(b) - 1)) + DigitVal(b[Len(b)])

\* the value of int(s) when it succeeds
IntValue(s) ==
    IF IntNegative(s) THEN -DigitsValue(IntBody(s)) ELSE DigitsValue(IntBody(s))

\* round(n / d) for d > 0: Python rounds a tie to the even neighbour
RoundHalfEven(n, d) ==
    LET fl == n \div d
        rem == n % d
    IN  IF 2 * rem > d THEN fl + 1
        ELSE IF 2 * rem < d THEN fl
        ELSE IF fl % 2 = 0 THEN fl ELSE fl + 1

\* round(a * b / d) for a >= 0, d > 0, without forming a * b
RoundMulDiv(a, b, d) ==
    LET q == a \div d
        r == a % d
        fl == q * b + ((r * b) \div d)
        rem == (r * b) % d
    IN  IF 2 * rem > d THEN fl + 1
        ELSE IF 2 * rem < d THEN fl
        ELSE IF fl % 2 = 0 THEN fl ELSE fl + 1

\* f"{n:03d}"
RECURSIVE DecimalDigits(_)
DecimalDigits(n) ==
    IF n < 10 THEN <<Digits[n + 1]>>
    ELSE DecimalDigits(n \div 10) \o <<Digits[(n % 10) + 1]>>
Pad3(n) ==
    LET d == DecimalDigits(n)
    IN  IF Len(d) = 1 THEN <<"0", "0">> \o d
        ELSE IF Len(d) = 2 THEN <<"0">> \o d
        ELSE d
\* f"REC-{rec_count:03d}"
RecId(n) == <<"R", "E", "C", "-">> \o Pad3(n)

(***************************************************************************)
(* mock_generate_recommendations.                                          *)
(*                                                                         *)
(* A directive is [id, action, target_type, target, applies_to,            *)
(* magnitude]; magnitude <<>> stands for both None and "" (the code only   *)
(* tests its truthiness).  A holding is [instrument_code, sector_tag,      *)
(* current_value, allocation_pct].  technical_signals maps instrument      *)
(* codes to what analyze_instrument returned (an entry without             *)
(* composite_score and signal is its error result).  The free-text         *)
(* fields of a recommendation (instrument, reasoning, expected_impact,     *)
(* target_instrument) are left out: nothing reads them.                    *)
(***************************************************************************)
GOLD == <<"G", "O", "L", "D">>
GOLDBEES == <<"N", "S", "E", ":", "G", "O", "L", "D", "B", "E", "E", "S">>

\* dict.get(key, default) on a record
Get(d, key, default) == IF key \in DOMAIN d THEN d[key] ELSE default
\* technical_signals.get(code, {})
TechOf(tech_signals, code) ==
    IF code \in DOMAIN tech_signals THEN tech_signals[code] ELSE [none |-> TRUE]

RECURSIVE SumAllocation(_, _)
SumAllocation(hs, tag) ==
    IF hs = <<>> THEN 0
    ELSE (IF Head(hs).sector_tag = tag THEN Head(hs).allocation_pct ELSE 0)
           + SumAllocation(Tail(hs), tag)

\* Mutant: the map re-balanced so that its entries sum to 100%.
sector_alloc_Rebalanced(hs) ==
    LET whole == SumAllocation(hs, <<"I", "T">>) + SumAllocation(hs, <<"i", "t">>)
                 + SumAllocation(hs, <<"G", "O", "L", "D">>)
                 + SumAllocation(hs, <<"E", "N", "E", "R", "G", "Y">>)
    IN  [tag \in {hs[i].sector_tag : i \in DOMAIN hs} |->
            IF whole = 0 THEN 0 ELSE (SumAllocation(hs, tag) * 1000) \div whole]

\* the sector allocation map: sum of allocation_pct keyed by the raw sector_tag
sector_alloc(hs) ==
    [tag \in {hs[i].sector_tag : i \in DOMAIN hs} |-> SumAllocation(hs, tag)]
\* sector_alloc.get(key, 0)
AllocGet(alloc, key) == IF key \in DOMAIN alloc THEN alloc[key] ELSE 0

\* the five `continue` tests: TRUE when the directive is processed
\* Mutant: the AGGRESSIVE_CLIENTS test left out.
Applies_NoAggressive(d, cl, alloc) ==
    /\ ~(d.applies_to = "MOMENTUM_STRATEGY" /\ cl.strategy_type # "MOMENTUM")
    /\ ~(d.applies_to = "CONSERVATIVE_CLIENTS" /\ cl.risk_profile # "CONSERVATIVE")
    /\ ~(d.applies_to = "CLIENTS_WITHOUT_GOLD" /\ GOLD \in DOMAIN alloc)
    /\ ~(d.applies_to = "CLIENTS_WITH_GOLD" /\ GOLD \notin DOMAIN alloc)

\* Mutant: a sixth test, MODERATE_CLIENTS against the risk profile.
Applies_ModerateTested(d, cl, alloc) ==
    /\ ~(d.applies_to = "MOMENTUM_STRATEGY" /\ cl.strategy_type # "MOMENTUM")
    /\ ~(d.applies_to = "CONSERVATIVE_CLIENTS" /\ cl.risk_profile # "CONSERVATIVE")
    /\ ~(d.applies_to = "AGGRESSIVE_CLIENTS" /\ cl.risk_profile # "AGGRESSIVE")
    /\ ~(d.applies_to = "MODERATE_CLIENTS" /\ cl.risk_profile # "MODERATE")
    /\ ~(d.applies_to = "CLIENTS_WITHOUT_GOLD" /\ GOLD \in DOMAIN alloc)
    /\ ~(d.applies_to = "CLIENTS_WITH_GOLD" /\ GOLD \notin DOMAIN alloc)

Applies(d, cl, alloc) ==
    /\ ~(d.applies_to = "MOMENTUM_STRATEGY" /\ cl.strategy_type # "MOMENTUM")
    /\ ~(d.applies_to = "CONSERVATIVE_CLIENTS" /\ cl.risk_profile # "CONSERVATIVE")
    /\ ~(d.applies_to = "AGGRESSIVE_CLIENTS" /\ cl.risk_profile # "AGGRESSIVE")
    /\ ~(d.applies_to = "CLIENTS_WITHOUT_GOLD" /\ GOLD \in DOMAIN alloc)
    /\ ~(d.applies_to = "CLIENTS_WITH_GOLD" /\ GOLD \notin DOMAIN alloc)

\* Mutant: the ASSET_CLASS branch left out.
Matches_NoAssetClass(d, h) ==
    \/ d.target_type = "SECTOR" /\ upper(h.sector_tag) = upper(d.target)
    \/ d.target_type = "STOCK" /\ Contains(upper(d.target), upper(h.instrument_code))

Matches(d, h) ==
    \/ d.target_type = "SECTOR" /\ upper(h.sector_tag) = upper(d.target)
    \/ d.target_type = "STOCK" /\ Contains(upper(d.target), upper(h.instrument_code))
    \/ d.target_type = "ASSET_CLASS" /\ upper(h.sector_tag) = upper(d.target)

matching_holdings(d, hs) == SelectSeq(hs, LAMBDA h : Matches(d, h))

\* Mutant: the default of the gold rule, 20, in place of 50.
ReducePct_Default20(magnitude) ==
    IF magnitude # <<>>
      THEN LET t == RemoveChar(magnitude, "%")
           IN  IF IntParses(t) THEN IntValue(t) ELSE 20
      ELSE 20

\* pct of a REDUCE_EXPOSURE directive
ReducePct(magnitude) ==
    IF magnitude # <<>>
      THEN LET t == RemoveChar(magnitude, "%")
           IN  IF IntParses(t) THEN IntValue(t) ELSE 50
      ELSE 50

\* target_pct of an INCREASE_ALLOCATION directive
GoldTargetPct(magnitude) ==
    IF magnitude # <<>>
      THEN LET t == RemoveTO(RemoveChar(magnitude, "%"))
           IN  IF IntParses(t) THEN IntValue(t) ELSE 20
      ELSE 20

\* Mutant: the upper band starts at -20 inclusive.
ReduceConfidence_Inclusive(tech_score) ==
    IF tech_score <= -200 THEN 85
    ELSE IF tech_score < 0 THEN 70
    ELSE 50

ReduceConfidence(tech_score) ==
    IF tech_score < -200 THEN 85
    ELSE IF tech_score < 0 THEN 70
    ELSE 50

\* round(current_value * pct / 100)
ReduceAmount(current_value, pct) == RoundHalfEven(current_value * pct, 100)
\* round(alloc_before * (1 - pct/100), 1), in tenths of a percent
ReduceAllocAfter(alloc_before, pct) == RoundHalfEven(alloc_before * (100 - pct), 100)

ReduceRec(d, h, tech_signals, n) ==
    LET pct == ReducePct(d.magnitude)
        tech == TechOf(tech_signals, h.instrument_code)
        tech_score == Get(tech, "composite_score", 0)
        confidence == ReduceConfidence(tech_score)
    IN  [rec_id |-> RecId(n),
         priority |-> IF confidence > 70 THEN "HIGH" ELSE "MEDIUM",
         action |-> "REDEEM",
         instrument_code |-> h.instrument_code,
         sector |-> h.sector_tag,
         amount |-> ReduceAmount(h.current_value, pct),
         fm_directive_ref |-> d.id,
         technical_score |-> tech_score,
         technical_signal |-> Get(tech, "signal", "N/A"),
         confidence |-> confidence,
         allocation_before_pct |-> h.allocation_pct,
         allocation_after_pct |-> ReduceAllocAfter(h.allocation_pct, pct)]

\* next((s for s in sector_signals if s["sector"].upper() == target.upper()), {})
SectorTech(sect_signals, target) ==
    LET hits == SelectSeq(sect_signals, LAMBDA x : upper(x.sector) = upper(target))
    IN  IF hits = <<>> THEN [none |-> TRUE] ELSE Head(hits)

\* current_exposure = sector_alloc.get(target.upper(), 0)
CurrentExposure(alloc, target) == AllocGet(alloc, upper(target))

IncreaseExposureRec(d, cl, alloc, sect_signals, n) ==
    LET current_exposure == CurrentExposure(alloc, d.target)
        sector_tech == SectorTech(sect_signals, d.target)
        tech_score == Get(sector_tech, "composite_score", 0)
        confidence == IF tech_score > 200 THEN 75 ELSE 55
    IN  [rec_id |-> RecId(n),
         priority |-> IF confidence > 70 THEN "HIGH" ELSE "MEDIUM",
         action |-> "INVEST",
         instrument_code |-> <<>>,
         sector |-> upper(d.target),
         amount |-> RoundHalfEven(cl.total_aum * 5, 100),       \* round(aum * 0.05)
         fm_directive_ref |-> d.id,
         technical_score |-> tech_score,
         technical_signal |-> Get(sector_tech, "signal", "N/A"),
         confidence |-> confidence,
         allocation_before_pct |-> current_exposure,
         allocation_after_pct |-> current_exposure + 50]        \* round(cur + 5, 1)

\* Mutant: the amount is the whole target, not the shortfall.
GoldRec_WholeTarget(d, cl, alloc, n) ==
    LET target_pct == GoldTargetPct(d.magnitude)
        current_gold == AllocGet(alloc, GOLD)
    IN  [rec_id |-> RecId(n),
         priority |-> "HIGH",
         action |-> "INVEST",
         instrument_code |-> GOLDBEES,
         sector |-> GOLD,
         amount |-> RoundMulDiv(cl.total_aum, target_pct * 10, 1000),
         fm_directive_ref |-> d.id,
         technical_score |-> 0,
         technical_signal |-> "N/A",
         confidence |-> 70,
         allocation_before_pct |-> current_gold,
         allocation_after_pct |-> target_pct * 10]

GoldRec(d, cl, alloc, n) ==
    LET target_pct == GoldTargetPct(d.magnitude)
        current_gold == AllocGet(alloc, GOLD)
        add_pct == target_pct * 10 - current_gold               \* tenths of a percent
    IN  [rec_id |-> RecId(n),
         priority |-> "HIGH",
         action |-> "INVEST",
         instrument_code |-> GOLDBEES,
         sector |-> GOLD,
         amount |-> RoundMulDiv(cl.total_aum, add_pct, 1000),   \* round(aum * add_pct / 100)
         fm_directive_ref |-> d.id,
         technical_score |-> 0,
         technical_signal |-> "N/A",
         confidence |-> 70,
         allocation_before_pct |-> current_gold,
         allocation_after_pct |-> target_pct * 10]

\* Mutant: a HOLD recommendation of priority MEDIUM.
HoldRec_Medium(d, h, tech_signals, n) ==
    LET tech == TechOf(tech_signals, h.instrument_code)
    IN  [rec_id |-> RecId(n),
         priority |-> "MEDIUM",
         action |-> "HOLD",
         instrument_code |-> h.instrument_code,
         sector |-> h.sector_tag,
         amount |-> 0,
         fm_directive_ref |-> d.id,
         technical_score |-> Get(tech, "composite_score", 0),
         technical_signal |-> Get(tech, "signal", "N/A"),
         confidence |-> 60,
         allocation_before_pct |-> h.allocation_pct,
         allocation_after_pct |-> h.allocation_pct]

HoldRec(d, h, tech_signals, n) ==
    LET tech == TechOf(tech_signals, h.instrument_code)
    IN  [rec_id |-> RecId(n),
         priority |-> "LOW",
         action |-> "HOLD",
         instrument_code |-> h.instrument_code,
         sector |-> h.sector_tag,
         amount |-> 0,
         fm_directive_ref |-> d.id,
         technical_score |-> Get(tech, "composite_score", 0),
         technical_signal |-> Get(tech, "signal", "N/A"),
         confidence |-> 60,
         allocation_before_pct |-> h.allocation_pct,
         allocation_after_pct |-> h.allocation_pct]

\* Mutant: the last branch takes every remaining action, not HOLD alone.
DirectiveRecs_ElseHolds(d, rec_count, tech_signals, sect_signals, cl, hs, alloc) ==
    LET mh == matching_holdings(d, hs)
    IN  IF ~Applies(d, cl, alloc) THEN <<>>
        ELSE IF d.action = "REDUCE_EXPOSURE" /\ mh # <<>>
          THEN [i \in 1..Len(mh) |-> ReduceRec(d, mh[i], tech_signals, rec_count + i)]
        ELSE IF d.action = "INCREASE_EXPOSURE" /\ d.target_type = "SECTOR"
          THEN IF CurrentExposure(alloc, d.target) < 150
                 THEN <<IncreaseExposureRec(d, cl, alloc, sect_signals, rec_count + 1)>>
                 ELSE <<>>
        ELSE IF d.action = "INCREASE_ALLOCATION" /\ d.target = GOLD
          THEN IF GOLD \notin DOMAIN alloc \/ AllocGet(alloc, GOLD) < 150
                 THEN <<GoldRec(d, cl, alloc, rec_count + 1)>>
                 ELSE <<>>
        ELSE [i \in 1..Len(mh) |-> HoldRec(d, mh[i], tech_signals, rec_count + i)]

\* One pass of the `for directive in fm_directives` body: the
\* recommendations the directive appends, numbered after rec_count.
DirectiveRecs(d, rec_count, tech_signals, sect_signals, cl, hs, alloc) ==
    LET mh == matching_holdings(d, hs)
    IN  IF ~Applies(d, cl, alloc) THEN <<>>
        ELSE IF d.action = "REDUCE_EXPOSURE" /\ mh # <<>>
          THEN [i \in 1..Len(mh) |-> ReduceRec(d, mh[i], tech_signals, rec_count + i)]
        ELSE IF d.action = "INCREASE_EXPOSURE" /\ d.target_type = "SECTOR"
          THEN IF CurrentExposure(alloc, d.target) < 150
                 THEN <<IncreaseExposureRec(d, cl, alloc, sect_signals, rec_count + 1)>>
                 ELSE <<>>
        ELSE IF d.action = "INCREASE_ALLOCATION" /\ d.target = GOLD
          THEN IF GOLD \notin DOMAIN alloc \/ AllocGet(alloc, GOLD) < 150
                 THEN <<GoldRec(d, cl, alloc, rec_count + 1)>>
                 ELSE <<>>
        ELSE IF d.action = "HOLD"
          THEN [i \in 1..Len(mh) |-> HoldRec(d, mh[i], tech_signals, rec_count + i)]
        ELSE <<>>

\* the directive loop over fm_directives[1..k]; rec_count is the length
RECURSIVE DirectiveLoop(_, _, _, _, _, _)
DirectiveLoop(ds, k, tech_signals, sect_signals, cl, hs) ==
    IF k = 0 THEN <<>>
    ELSE LET before == DirectiveLoop(ds, k - 1, tech_signals, sect_signals, cl, hs)
         IN  before \o DirectiveRecs(ds[k], Len(before), tech_signals, sect_signals,
                                     cl, hs, sector_alloc(hs))

\* the standalone recommendation of the technical-alert pass
\* Mutant: an alert of confidence 65.
AlertRec_Confident(h, tech, n) ==
    [rec_id |-> RecId(n),
     priority |-> "MEDIUM",
     action |-> IF tech.signal = "STRONG_SELL" THEN "REVIEW" ELSE "ACCUMULATE",
     instrument_code |-> h.instrument_code,
     sector |-> h.sector_tag,
     amount |-> 0,
     fm_directive_ref |-> None,
     technical_score |-> Get(tech, "composite_score", 0),
     technical_signal |-> tech.signal,
     confidence |-> 65,
     allocation_before_pct |-> h.allocation_pct,
     allocation_after_pct |-> h.allocation_pct]

\* Mutant: every alert asks for a REVIEW, whatever the signal.
AlertRec_AlwaysReview(h, tech, n) ==
    [rec_id |-> RecId(n),
     priority |-> "MEDIUM",
     action |-> "REVIEW",
     instrument_code |-> h.instrument_code,
     sector |-> h.sector_tag,
     amount |-> 0,
     fm_directive_ref |-> None,
     technical_score |-> Get(tech, "composite_score", 0),
     technical_signal |-> tech.signal,
     confidence |-> 45,
     allocation_before_pct |-> h.allocation_pct,
     allocation_after_pct |-> h.allocation_pct]

AlertRec(h, tech, n) ==
    [rec_id |-> RecId(n),
     priority |-> "MEDIUM",
     action |-> IF tech.signal = "STRONG_SELL" THEN "REVIEW" ELSE "ACCUMULATE",
     instrument_code |-> h.instrument_code,
     sector |-> h.sector_tag,
     amount |-> 0,
     fm_directive_ref |-> None,
     technical_score |-> Get(tech, "composite_score", 0),
     technical_signal |-> tech.signal,
     confidence |-> 45,
     allocation_before_pct |-> h.allocation_pct,
     allocation_after_pct |-> h.allocation_pct]

\* Mutant: the alert pass looks at STRONG_SELL only.
IsExtreme_SellOnly(tech) == Get(tech, "signal", None) \in {"STRONG_SELL"}

\* the test that lets a holding into the technical-alert pass
IsExtreme(tech) == Get(tech, "signal", None) \in {"STRONG_SELL", "STRONG_BUY"}

\* Mutant: the alert pass numbers a recommendation after the holding's
\* position, not after rec_count.
RECURSIVE AlertPass_NumberedByHolding(_, _, _, _)
AlertPass_NumberedByHolding(recs, hs, k, tech_signals) ==
    IF k = 0 THEN recs
    ELSE LET sofar == AlertPass_NumberedByHolding(recs, hs, k - 1, tech_signals)
             h == hs[k]
             tech == TechOf(tech_signals, h.instrument_code)
             covered == \E i \in DOMAIN sofar : sofar[i].instrument_code = h.instrument_code
         IN  IF IsExtreme(tech) /\ ~covered
               THEN Append(sofar, AlertRec(h, tech, k))
               ELSE sofar

\* the `for h in holdings` pass after the directives, over holdings[1..k]
RECURSIVE AlertPass(_, _, _, _)
AlertPass(recs, hs, k, tech_signals) ==
    IF k = 0 THEN recs
    ELSE LET sofar == AlertPass(recs, hs, k - 1, tech_signals)
             h == hs[k]
             tech == TechOf(tech_signals, h.instrument_code)
             covered == \E i \in DOMAIN sofar : sofar[i].instrument_code = h.instrument_code
         IN  IF IsExtreme(tech) /\ ~covered
               THEN Append(sofar, AlertRec(h, tech, Len(sofar) + 1))
               ELSE sofar

\* Mutant: an unstable sort, a new element goes ahead of its equals.
RECURSIVE InsertByConfidence_Unstable(_, _)
InsertByConfidence_Unstable(sorted, r) ==
    IF sorted = <<>> THEN <<r>>
    ELSE IF Head(sorted).confidence > r.confidence
      THEN <<Head(sorted)>> \o InsertByConfidence_Unstable(Tail(sorted), r)
    ELSE <<r>> \o sorted

\* where a stable descending sort puts r in an already sorted list
RECURSIVE InsertByConfidence(_, _)
InsertByConfidence(sorted, r) ==
    IF sorted = <<>> THEN <<r>>
    ELSE IF Head(sorted).confidence >= r.confidence
      THEN <<Head(sorted)>> \o InsertByConfidence(Tail(sorted), r)
    ELSE <<r>> \o sorted

\* sorted(recommendations, key=lambda x: -x.get("confidence", 0))
RECURSIVE SortByConfidence(_)
SortByConfidence(recs) ==
    IF recs = <<>> THEN <<>>
    ELSE InsertByConfidence(SortByConfidence(SubSeq(recs, 1, Len(recs) - 1)),
                            recs[Len(recs)])

\* the list in the order the recommendations were appended
Generated(ds, tech_signals, sect_signals, cl, hs) ==
    AlertPass(DirectiveLoop(ds, Len(ds), tech_signals, sect_signals, cl, hs),
              hs, Len(hs), tech_signals)

mock_generate_recommendations(ds, tech_signals, sect_signals, cl, hs) ==
    LET recommendations == Generated(ds, tech_signals, sect_signals, cl, hs)
    IN  [client_summary |->
            [client_id |-> Get(cl, "client_id", None),
             risk_profile |-> cl.risk_profile,
             total_aum |-> cl.total_aum,
             portfolio_health |->
                IF recommendations # <<>> THEN "NEEDS_REBALANCING" ELSE "GOOD"],
         recommendations |-> SortByConfidence(recommendations),
         portfolio_impact |-> [sector_allocation_after |-> sector_alloc(hs)],
         alerts |-> <<>>,
         mode |-> "MOCK"]

(***************************************************************************)
(* Inputs of mock_generate_recommendations.                                *)
(*                                                                         *)
(* Allocations are drawn on the 2.5% grid and reduction percentages are    *)
(* multiples of 5: there round(x, 1) of the float product and the exact    *)
(* half-even rounding of ReduceAllocAfter coincide (a decimal tie that is  *)
(* not a binary fraction, e.g. 14.5 * 0.7, is rounded by its float error   *)
(* in Python and lies outside the model's inputs; see AllocationsOnGrid).  *)
(***************************************************************************)
\* Longest directive list and longest holdings list drawn.
MaxDirectives == 2
MaxHoldings == 2

IT == <<"I", "T">>
ENERGY == <<"E", "N", "E", "R", "G", "Y">>
TCS == <<"N", "S", "E", ":", "T", "C", "S">>
INFY == <<"N", "S", "E", ":", "I", "N", "F", "Y">>
ONGC == <<"N", "S", "E", ":", "O", "N", "G", "C">>

\* all sequences over S of length at most n
RECURSIVE SeqUpTo(_, _)
SeqUpTo(S, n) ==
    IF n = 0 THEN {<<>>}
    ELSE LET shorter == SeqUpTo(S, n - 1)
         IN  shorter \cup {Append(q, x) : q \in {t \in shorter : Len(t) = n - 1}, x \in S}

\* directive ids as the parser numbers them, f"DIR-{dir_count:03d}"
DirId(i) == <<"DIR-001", "DIR-002", "DIR-003", "DIR-004">>[i]
Directive(a, tt, t, at, m) ==
    [action |-> a, target_type |-> tt, target |-> t, applies_to |-> at, magnitude |-> m]
WithIds(ds) ==
    [i \in 1..Len(ds) |->
        [id |-> DirId(i), action |-> ds[i].action, target_type |-> ds[i].target_type,
         target |-> ds[i].target, applies_to |-> ds[i].applies_to,
         magnitude |-> ds[i].magnitude]]

Holding(code, tag, value, alloc) ==
    [instrument_code |-> code, sector_tag |-> tag, current_value |-> value,
     allocation_pct |-> alloc]
\* what analyze_instrument returns for a composite score c (tenths)
Signal(c) == [composite_score |-> c, signal |-> SignalOf(c)]
NoData == [error |-> "No data available"]
Client(aum, risk, strategy) ==
    [total_aum |-> aum, risk_profile |-> risk, strategy_type |-> strategy]

\* technical_signals: each code either absent or mapped to one of its options
Absent == [absent |-> TRUE]
TechMaps(options) ==
    LET codes == DOMAIN options
        Choices == [codes -> {Absent} \cup UNION {options[c] : c \in codes}]
        Valid == {f \in Choices : \A c \in codes : f[c] = Absent \/ f[c] \in options[c]}
    IN  {[c \in {x \in codes : f[x] # Absent} |-> f[c]] : f \in Valid}

MixedDirectives ==
    {Directive("REDUCE_EXPOSURE", "SECTOR", IT, "ALL_CLIENTS", <<"5", "0", "%">>),
     Directive("REDUCE_EXPOSURE", "STOCK", <<"t", "c", "s">>, "ALL_CLIENTS", <<>>),
     Directive("INCREASE_EXPOSURE", "SECTOR", ENERGY, "ALL_CLIENTS", <<>>),
     Directive("INCREASE_ALLOCATION", "ASSET_CLASS", GOLD, "CLIENTS_WITHOUT_GOLD",
               <<"2", "0", "%">>),
     Directive("HOLD", "ASSET_CLASS", <<"i", "t">>, "ALL_CLIENTS", <<>>),
     Directive("SWITCH", "SECTOR", IT, "ALL_CLIENTS", <<>>)}

MixedHoldings ==
    {Holding(TCS, IT, 100000, 100),
     Holding(INFY, <<"i", "t">>, 100001, 75),
     Holding(GOLDBEES, GOLD, 250000, 125),
     Holding(TCS, IT, 50001, 25)}

MixedTech ==
    TechMaps((TCS :> {Signal(-250), Signal(-700)})
             @@ (INFY :> {NoData, Signal(650)}))

MixedSectorSignals ==
    {<<[sector |-> ENERGY, composite_score |-> 450, signal |-> "BUY"]>>}

MixedClients == {Client(5000000, "MODERATE", "MOMENTUM")}

InitRecWith(Dirs, Hold, Tech, Sect, Clients) ==
    /\ pc = "generate"
    /\ fm_directives \in Dirs
    /\ holdings \in Hold
    /\ technical_signals \in Tech
    /\ sector_signals \in Sect
    /\ client \in Clients
    /\ result = None
    /\ IdleScore
    /\ IdleAnalyze
    /\ IdlePipe

InitRec ==
    InitRecWith({WithIds(ds) : ds \in SeqUpTo(MixedDirectives, MaxDirectives)},
                SeqUpTo(MixedHoldings, MaxHoldings),
                MixedTech, MixedSectorSignals, MixedClients)

Generate ==
    /\ pc = "generate"
    /\ result' = mock_generate_recommendations(fm_directives, technical_signals,
                                               sector_signals, client, holdings)
    /\ pc' = "generated"
    /\ UNCHANGED <<fm_directives, technical_signals, sector_signals, client, holdings,
                   scoreVars, analyzeVars, pipeVars>>

NextRec == Generate

SpecRec == InitRec /\ [][NextRec]_vars

(***************************************************************************)
(* Reading the returned list.                                              *)
(***************************************************************************)
Recs == result.recommendations
\* the number n a recommendation was given when it was appended (REC-00n)
GenIndex(r) == CHOOSE n \in 1..Len(Recs) : RecId(n) = r.rec_id
\* the returned recommendations in the order they were appended
ByGenOrder ==
    [n \in 1..Len(Recs) |-> Recs[CHOOSE i \in 1..Len(Recs) : Recs[i].rec_id = RecId(n)]]
\* the recommendations that refer to directive k, in the order appended
DirRecs(k) == SelectSeq(ByGenOrder, LAMBDA r : r.fm_directive_ref = fm_directives[k].id)
\* position of the directive a recommendation refers to; alerts come last
DirPos(r) ==
    IF r.fm_directive_ref = None THEN Len(fm_directives) + 1
    ELSE CHOOSE k \in 1..Len(fm_directives) : fm_directives[k].id = r.fm_directive_ref
CodesOf(seq) == [i \in 1..Len(seq) |-> seq[i].instrument_code]

\* The model's numbers stay where Python's float rounding and the exact
\* rounding agree: a tie of round(alloc * (1 - pct/100), 1) is a multiple of
\* 0.25 for every holding and every reduction percentage drawn.
AllocationsOnGrid ==
    pc \in {"generate", "generated"} =>
        \A k \in DOMAIN fm_directives, i \in DOMAIN holdings :
            LET x == holdings[i].allocation_pct
                        * (100 - ReducePct(fm_directives[k].magnitude))
            IN  (x % 100 = 50) => (x % 250 = 0)

(***************************************************************************)
(* Claims about mock_generate_recommendations.                             *)
(***************************************************************************)
\* the holding's technical signal, looked up by its instrument_code
HasExtremeSignal(h) ==
    /\ h.instrument_code \in DOMAIN technical_signals
    /\ "signal" \in DOMAIN technical_signals[h.instrument_code]
    /\ technical_signals[h.instrument_code].signal \in {"STRONG_BUY", "STRONG_SELL"}

\* C1: coverage.  Every holding whose technical signal is STRONG_BUY or
\* STRONG_SELL has at least one recommendation in the returned list with
\* the holding's instrument_code.
C1_Coverage ==
    pc = "generated" =>
        \A i \in DOMAIN holdings :
            HasExtremeSignal(holdings[i]) =>
                \E j \in DOMAIN Recs :
                    Recs[j].instrument_code = holdings[i].instrument_code

\* A STRONG_BUY holding no directive touches, surfaced by the alert pass
\* alone, next to a STRONG_SELL holding that a directive already covers.
C1_Witness ==
    /\ pc = "generated"
    /\ \E i \in DOMAIN holdings :
          /\ HasExtremeSignal(holdings[i])
          /\ technical_signals[holdings[i].instrument_code].signal = "STRONG_BUY"
          /\ \A j \in DOMAIN Recs :
                Recs[j].instrument_code = holdings[i].instrument_code
                    => Recs[j].fm_directive_ref = None
    /\ \E i \in DOMAIN holdings :
          /\ HasExtremeSignal(holdings[i])
          /\ technical_signals[holdings[i].instrument_code].signal = "STRONG_SELL"
          /\ \A j \in DOMAIN Recs :
                Recs[j].instrument_code = holdings[i].instrument_code
                    => Recs[j].fm_directive_ref # None

\* C5: the returned list is sorted by confidence, non-increasing, and
\* recommendations of equal confidence keep the order in which they were
\* generated: by rec_id number, which is directive order, then the order of
\* the matched holdings, with the alert pass last.
C5_SortedStable ==
    pc = "generated" =>
        /\ \A i, j \in DOMAIN Recs :
              i < j =>
                \/ Recs[i].confidence > Recs[j].confidence
                \/ /\ Recs[i].confidence = Recs[j].confidence
                   /\ GenIndex(Recs[i]) < GenIndex(Recs[j])
                   /\ DirPos(Recs[i]) <= DirPos(Recs[j])
        /\ \A k \in DOMAIN fm_directives :
              fm_directives[k].action \in {"REDUCE_EXPOSURE", "HOLD"} =>
                \A c \in {Recs[i].confidence : i \in DOMAIN Recs} :
                    LET group == SelectSeq(Recs, LAMBDA r :
                                    r.fm_directive_ref = fm_directives[k].id
                                    /\ r.confidence = c)
                        held == SelectSeq(holdings, LAMBDA h :
                                    /\ Matches(fm_directives[k], h)
                                    /\ \E i \in DOMAIN group :
                                          group[i].instrument_code = h.instrument_code)
                    IN  CodesOf(group) = CodesOf(held)

\* A list in which the sort moved a later recommendation ahead of an
\* earlier one, and in which two recommendations tie.
C5_Witness ==
    /\ pc = "generated"
    /\ \E i, j \in DOMAIN Recs :
          i < j /\ GenIndex(Recs[i]) > GenIndex(Recs[j])
    /\ \E i, j \in DOMAIN Recs :
          i < j /\ Recs[i].confidence = Recs[j].confidence

(***************************************************************************)
(* One directive of a given kind after a possibly empty run of HOLD        *)
(* directives, so that the rule under study is met at every rec_count.     *)
(***************************************************************************)
HoldIT == Directive("HOLD", "SECTOR", IT, "ALL_CLIENTS", <<>>)
AfterHolds(D) ==
    {WithIds(pre \o <<d>>) : pre \in SeqUpTo({HoldIT}, MaxDirectives - 1), d \in D}

\* magnitudes as the directive parser leaves them; <<>> is None
NoMagnitude == <<>>
Unparseable == {<<"P", "A", "R", "T", "I", "A", "L">>, <<"5", ".", "5", "%">>}
ReduceMagnitudes ==
    {NoMagnitude, <<"5", "0", "%">>, <<"2", "0", "%">>, <<"1", "5", "0", "%">>}
        \cup Unparseable

ReduceDirectives ==
    {Directive("REDUCE_EXPOSURE", tt, t, at, m) :
        tt \in {"SECTOR", "STOCK", "PORTFOLIO"},
        t \in {<<"i", "t">>, <<"T", "C", "S">>},
        at \in {"ALL_CLIENTS", "CONSERVATIVE_CLIENTS"},
        m \in ReduceMagnitudes}

ReduceHoldings ==
    {Holding(TCS, IT, 100000, 100),
     Holding(INFY, <<"i", "t">>, 100001, 75),
     Holding(TCS, IT, 50001, 25),
     Holding(ONGC, ENERGY, 250000, 125)}

ReduceTech ==
    TechMaps((TCS :> {NoData, Signal(-250), Signal(-201), Signal(-200),
                      Signal(-1), Signal(0)})
             @@ (INFY :> {Signal(-250)}))

InitReduce ==
    InitRecWith(AfterHolds(ReduceDirectives),
                SeqUpTo(ReduceHoldings, MaxHoldings),
                ReduceTech, {<<>>}, MixedClients)

SpecReduce == InitReduce /\ [][NextRec]_vars

\* the reduction percentage each magnitude of ReduceMagnitudes stands for
PctOf(m) ==
    IF m = <<"5", "0", "%">> THEN 50
    ELSE IF m = <<"2", "0", "%">> THEN 20
    ELSE IF m = <<"1", "5", "0", "%">> THEN 150
    ELSE 50

\* the confidence the rule gives a holding, from its technical signal
BandOf(h) ==
    LET has == /\ h.instrument_code \in DOMAIN technical_signals
               /\ "composite_score" \in DOMAIN technical_signals[h.instrument_code]
        score == technical_signals[h.instrument_code].composite_score
    IN  IF has /\ score < -200 THEN 85
        ELSE IF has /\ -200 <= score /\ score < 0 THEN 70
        ELSE 50

Abs(x) == IF x < 0 THEN -x ELSE x

\* C7 (as stated): a REDUCE_EXPOSURE directive whose magnitude is absent or
\* cannot be parsed uses 50%: the amount of the recommendation of each
\* matched holding is exactly half of the holding's current_value.
C7_DefaultHalfExactly ==
    pc = "generated" =>
        \A k \in DOMAIN fm_directives :
            LET d == fm_directives[k]
                mh == matching_holdings(d, holdings)
                rs == DirRecs(k)
            IN  (d.action = "REDUCE_EXPOSURE"
                    /\ d.magnitude \in {NoMagnitude} \cup Unparseable) =>
                  /\ Len(rs) \in {0, Len(mh)}
                  /\ \A i \in DOMAIN rs : 2 * rs[i].amount = mh[i].current_value

\* C7 (amended): a REDUCE_EXPOSURE directive whose magnitude is absent or
\* cannot be parsed uses 50%: the amount of the recommendation of each
\* matched holding is half of the holding's current_value rounded to a
\* whole number, so current_value = 100000 gives 50000.
C7_DefaultHalfRounded ==
    pc = "generated" =>
        \A k \in DOMAIN fm_directives :
            LET d == fm_directives[k]
                mh == matching_holdings(d, holdings)
                rs == DirRecs(k)
            IN  (d.action = "REDUCE_EXPOSURE"
                    /\ d.magnitude \in {NoMagnitude} \cup Unparseable) =>
                  /\ Len(rs) \in {0, Len(mh)}
                  /\ \A i \in DOMAIN rs :
                        /\ Abs(2 * rs[i].amount - mh[i].current_value) <= 1
                        /\ mh[i].current_value = 100000 => rs[i].amount = 50000

\* An unparseable magnitude met by a holding worth 100000 and by one of odd
\* worth, whose half is not a whole number.
C7_Witness ==
    /\ pc = "generated"
    /\ \E k \in DOMAIN fm_directives :
          /\ fm_directives[k].action = "REDUCE_EXPOSURE"
          /\ fm_directives[k].magnitude \in Unparseable
          /\ \E i, j \in DOMAIN DirRecs(k) :
                /\ matching_holdings(fm_directives[k], holdings)[i].current_value = 100000
                /\ DirRecs(k)[i].amount = 50000
                /\ matching_holdings(fm_directives[k], holdings)[j].current_value = 100001
                /\ DirRecs(k)[j].amount = 50000

\* C8 (as stated): every holding matched by an applicable REDUCE_EXPOSURE
\* directive with reduction pct gets exactly one REDEEM recommendation with
\* amount = current_value*pct/100, allocation_after =
\* allocation_before*(1 - pct/100), confidence 85 below -20, 70 from -20 up
\* to 0, else 50, and priority HIGH exactly when confidence > 70.
C8_ReduceRuleExactly ==
    pc = "generated" =>
        \A k \in DOMAIN fm_directives :
            LET d == fm_directives[k]
                mh == matching_holdings(d, holdings)
                rs == DirRecs(k)
                pct == PctOf(d.magnitude)
            IN  (d.action = "REDUCE_EXPOSURE"
                    /\ Applies(d, client, sector_alloc(holdings))) =>
                  /\ Len(rs) = Len(mh)
                  /\ \A i \in DOMAIN rs :
                        /\ rs[i].action = "REDEEM"
                        /\ rs[i].instrument_code = mh[i].instrument_code
                        /\ 100 * rs[i].amount = mh[i].current_value * pct
                        /\ rs[i].allocation_before_pct = mh[i].allocation_pct
                        /\ 100 * rs[i].allocation_after_pct
                              = mh[i].allocation_pct * (100 - pct)
                        /\ rs[i].confidence = BandOf(mh[i])
                        /\ rs[i].priority
                              = IF rs[i].confidence > 70 THEN "HIGH" ELSE "MEDIUM"

\* C8 (amended): as stated, except that the amount is
\* current_value*pct/100 rounded to a whole number and allocation_after is
\* allocation_before*(1 - pct/100) rounded to one decimal place.
C8_ReduceRuleRounded ==
    pc = "generated" =>
        \A k \in DOMAIN fm_directives :
            LET d == fm_directives[k]
                mh == matching_holdings(d, holdings)
                rs == DirRecs(k)
                pct == PctOf(d.magnitude)
            IN  (d.action = "REDUCE_EXPOSURE"
                    /\ Applies(d, client, sector_alloc(holdings))) =>
                  /\ Len(rs) = Len(mh)
                  /\ \A i \in DOMAIN rs :
                        /\ rs[i].action = "REDEEM"
                        /\ rs[i].instrument_code = mh[i].instrument_code
                        /\ Abs(100 * rs[i].amount - mh[i].current_value * pct) <= 50
                        /\ rs[i].allocation_before_pct = mh[i].allocation_pct
                        /\ Abs(100 * rs[i].allocation_after_pct
                                - mh[i].allocation_pct * (100 - pct)) <= 50
                        /\ rs[i].confidence = BandOf(mh[i])
                        /\ rs[i].priority
                              = IF rs[i].confidence > 70 THEN "HIGH" ELSE "MEDIUM"

\* The scenario of the claim (allocation 10.0, 50%, score -25.0: confidence
\* 85, HIGH, allocation_after 5.0) next to a holding of 7.5% whose half,
\* 3.75, is rounded to 3.8.
C8_Witness ==
    /\ pc = "generated"
    /\ \E k \in DOMAIN fm_directives :
          /\ fm_directives[k].action = "REDUCE_EXPOSURE"
          /\ fm_directives[k].magnitude = <<"5", "0", "%">>
          /\ \E i, j \in DOMAIN DirRecs(k) :
                /\ DirRecs(k)[i].allocation_before_pct = 100
                /\ DirRecs(k)[i].technical_score = -250
                /\ DirRecs(k)[i].confidence = 85
                /\ DirRecs(k)[i].priority = "HIGH"
                /\ DirRecs(k)[i].allocation_after_pct = 50
                /\ DirRecs(k)[j].allocation_before_pct = 75
                /\ DirRecs(k)[j].allocation_after_pct = 38

(***************************************************************************)
(* INCREASE_ALLOCATION of GOLD.                                            *)
(***************************************************************************)
GoldMagnitudes ==
    {NoMagnitude, <<"2", "0", "%">>, <<"T", "O", "_", "2", "0", "%">>,
     <<"T", "O", "_", "3", "0", "%">>, <<"1", "0", "%">>, <<"P", "A", "R", "T", "I", "A", "L">>}

GoldDirectives ==
    {Directive("INCREASE_ALLOCATION", "ASSET_CLASS", t, at, m) :
        t \in {GOLD, <<"g", "o", "l", "d">>},
        at \in {"ALL_CLIENTS", "CLIENTS_WITHOUT_GOLD"},
        m \in GoldMagnitudes}

\* gold at 12.5% and 2.5%: together exactly the 15% of the gate
GoldHoldings ==
    {Holding(GOLDBEES, GOLD, 250000, 125),
     Holding(GOLDBEES, GOLD, 50001, 25),
     Holding(TCS, IT, 100000, 100),
     Holding(INFY, <<"i", "t">>, 100001, 75)}

GoldClients ==
    {Client(5000000, "MODERATE", "MOMENTUM"), Client(5069246, "MODERATE", "VALUE"),
     Client(1050, "CONSERVATIVE", "VALUE")}

InitGold ==
    InitRecWith(AfterHolds(GoldDirectives),
                SeqUpTo(GoldHoldings, MaxHoldings),
                {<<>>}, {<<>>}, GoldClients)

SpecGold == InitGold /\ [][NextRec]_vars

\* the target percentage each magnitude of GoldMagnitudes stands for
TargetOf(m) ==
    IF m = <<"T", "O", "_", "3", "0", "%">> THEN 30
    ELSE IF m = <<"1", "0", "%">> THEN 10
    ELSE 20

RECURSIVE TotalAllocation(_)
TotalAllocation(hs) ==
    IF hs = <<>> THEN 0 ELSE Head(hs).allocation_pct + TotalAllocation(Tail(hs))

\* the client's current GOLD allocation, in tenths of a percent
GoldAllocation == TotalAllocation(SelectSeq(holdings, LAMBDA h : h.sector_tag = GOLD))

\* C9 (as stated): an applicable INCREASE_ALLOCATION directive targeting
\* GOLD produces exactly one recommendation when the client's GOLD
\* allocation is below 15% and none otherwise; the target is the parsed
\* magnitude or 20, amount = AUM*(target - current)/100, allocation_after =
\* target, confidence 70, priority HIGH.
C9_GoldRuleExactly ==
    pc = "generated" =>
        \A k \in DOMAIN fm_directives :
            LET d == fm_directives[k]
                rs == DirRecs(k)
                target == 10 * TargetOf(d.magnitude)
            IN  (d.action = "INCREASE_ALLOCATION" /\ d.target = GOLD
                    /\ Applies(d, client, sector_alloc(holdings))) =>
                  IF GoldAllocation < 150
                    THEN /\ Len(rs) = 1
                         /\ 1000 * rs[1].amount
                              = client.total_aum * (target - GoldAllocation)
                         /\ rs[1].allocation_after_pct = target
                         /\ rs[1].confidence = 70
                         /\ rs[1].priority = "HIGH"
                    ELSE Len(rs) = 0

\* C9 (amended): as stated, except that the amount is
\* AUM*(target - current)/100 rounded to a whole number.
C9_GoldRuleRounded ==
    pc = "generated" =>
        \A k \in DOMAIN fm_directives :
            LET d == fm_directives[k]
                rs == DirRecs(k)
                target == 10 * TargetOf(d.magnitude)
            IN  (d.action = "INCREASE_ALLOCATION" /\ d.target = GOLD
                    /\ Applies(d, client, sector_alloc(holdings))) =>
                  IF GoldAllocation < 150
                    THEN /\ Len(rs) = 1
                         /\ Abs(1000 * rs[1].amount
                                 - client.total_aum * (target - GoldAllocation)) <= 500
                         /\ (client.total_aum = 5000000 /\ GoldAllocation = 0
                                /\ target = 200) => rs[1].amount = 1000000
                         /\ rs[1].allocation_after_pct = target
                         /\ rs[1].confidence = 70
                         /\ rs[1].priority = "HIGH"
                    ELSE Len(rs) = 0

\* A client of AUM 5,069,246 holding 12.5% of gold and told to go to 20%:
\* 7.5% of the AUM is 380,193.45, recommended as 380,193.
C9_Witness ==
    /\ pc = "generated"
    /\ client.total_aum = 5069246
    /\ GoldAllocation = 125
    /\ \E k \in DOMAIN fm_directives :
          /\ fm_directives[k].action = "INCREASE_ALLOCATION"
          /\ fm_directives[k].magnitude = <<"2", "0", "%">>
          /\ Len(DirRecs(k)) = 1
          /\ DirRecs(k)[1].amount = 380193
          /\ DirRecs(k)[1].allocation_after_pct = 200

(***************************************************************************)
(* INCREASE_EXPOSURE to a sector.                                          *)
(***************************************************************************)
Energy == <<"E", "n", "e", "r", "g", "y">>

IncreaseDirectives ==
    {Directive("INCREASE_EXPOSURE", tt, t, at, NoMagnitude) :
        tt \in {"SECTOR", "ASSET_CLASS"},
        t \in {ENERGY, <<"e", "n", "e", "r", "g", "y">>},
        at \in {"ALL_CLIENTS", "CONSERVATIVE_CLIENTS"}}

\* energy at 12.5% and 2.5%, together exactly the 15% of the gate, and a
\* 40% holding whose sector_tag is written "Energy"
IncreaseHoldings ==
    {Holding(ONGC, ENERGY, 250000, 125),
     Holding(ONGC, ENERGY, 50001, 25),
     Holding(ONGC, Energy, 800000, 400),
     Holding(TCS, IT, 100000, 100)}

SectorSignal(sector, c) == [sector |-> sector, composite_score |-> c, signal |-> SignalOf(c)]
IncreaseSectorSignals ==
    {<<>>,
     <<SectorSignal(ENERGY, 200)>>,
     <<SectorSignal(ENERGY, 201)>>,
     <<SectorSignal(Energy, 450)>>,
     <<SectorSignal(IT, 450), SectorSignal(ENERGY, -100)>>,
     <<SectorSignal(ENERGY, 100), SectorSignal(ENERGY, 450)>>}

IncreaseClients ==
    {Client(5000000, "MODERATE", "MOMENTUM"), Client(1050, "CONSERVATIVE", "VALUE")}

InitIncrease ==
    InitRecWith(AfterHolds(IncreaseDirectives),
                SeqUpTo(IncreaseHoldings, MaxHoldings),
                {<<>>}, IncreaseSectorSignals, IncreaseClients)

SpecIncrease == InitIncrease /\ [][NextRec]_vars

\* the client's allocation to a sector, sector names compared without case
AllocationAnyCase(target) ==
    TotalAllocation(SelectSeq(holdings, LAMBDA h : upper(h.sector_tag) = upper(target)))

\* composite score of the first entry of the sector-signal list for target
SectorScore(target) ==
    LET hits == SelectSeq(sector_signals, LAMBDA x : upper(x.sector) = upper(target))
    IN  IF hits = <<>> THEN 0 ELSE Head(hits).composite_score

\* C10: an applicable sector-level INCREASE_EXPOSURE directive produces a
\* recommendation only if the client's allocation to the target sector,
\* summed over the holdings of that sector compared case-insensitively, is
\* below 15%.
C10_FiresOnlyBelowGate ==
    pc = "generated" =>
        \A k \in DOMAIN fm_directives :
            LET d == fm_directives[k]
            IN  (d.action = "INCREASE_EXPOSURE" /\ d.target_type = "SECTOR"
                    /\ Applies(d, client, sector_alloc(holdings))) =>
                  (DirRecs(k) # <<>> => AllocationAnyCase(d.target) < 150)

\* What the rule does: the gate reads the sector-allocation map at the
\* upper-cased target, whatever the case of the holdings' sector_tag; a
\* directive that passes it yields one INVEST recommendation of 5% of the
\* AUM rounded to a whole number, confidence 75 above 20 and 55 otherwise.
IncreaseExposureAsCoded ==
    pc = "generated" =>
        \A k \in DOMAIN fm_directives :
            LET d == fm_directives[k]
                rs == DirRecs(k)
                exposure == TotalAllocation(SelectSeq(holdings,
                                LAMBDA h : h.sector_tag = upper(d.target)))
            IN  (d.action = "INCREASE_EXPOSURE" /\ d.target_type = "SECTOR"
                    /\ Applies(d, client, sector_alloc(holdings))) =>
                  IF exposure < 150
                    THEN /\ Len(rs) = 1
                         /\ rs[1].action = "INVEST"
                         /\ Abs(100 * rs[1].amount - 5 * client.total_aum) <= 50
                         /\ rs[1].confidence
                              = IF SectorScore(d.target) > 200 THEN 75 ELSE 55
                    ELSE Len(rs) = 0

(***************************************************************************)
(* HOLD, and which holdings a directive matches.                           *)
(***************************************************************************)
MatchTargets == {IT, <<"i", "t">>, <<"T", "C", "S">>, <<"t", "c", "s">>}

MatchDirectives ==
    {Directive(a, tt, t, at, NoMagnitude) :
        a \in {"HOLD", "REDUCE_EXPOSURE"},
        tt \in {"SECTOR", "ASSET_CLASS", "STOCK", "PORTFOLIO"},
        t \in MatchTargets,
        at \in {"ALL_CLIENTS", "CONSERVATIVE_CLIENTS"}}

InitHold ==
    InitRecWith(AfterHolds(MatchDirectives),
                SeqUpTo(ReduceHoldings, MaxHoldings),
                TechMaps(TCS :> {Signal(-250)}), {<<>>}, MixedClients)

SpecHold == InitHold /\ [][NextRec]_vars

\* C11: an applicable HOLD directive produces exactly one recommendation
\* per matched holding, each with amount 0, confidence 60, priority LOW and
\* allocation_after equal to allocation_before; a HOLD directive that
\* matches no holding produces nothing.
C11_HoldRule ==
    pc = "generated" =>
        \A k \in DOMAIN fm_directives :
            LET d == fm_directives[k]
                mh == matching_holdings(d, holdings)
                rs == DirRecs(k)
            IN  (d.action = "HOLD" /\ Applies(d, client, sector_alloc(holdings))) =>
                  /\ Len(rs) = Len(mh)
                  /\ \A i \in DOMAIN rs :
                        /\ rs[i].action = "HOLD"
                        /\ rs[i].instrument_code = mh[i].instrument_code
                        /\ rs[i].amount = 0
                        /\ rs[i].confidence = 60
                        /\ rs[i].priority = "LOW"
                        /\ rs[i].allocation_before_pct = mh[i].allocation_pct
                        /\ rs[i].allocation_after_pct = rs[i].allocation_before_pct

\* One HOLD directive that yields two recommendations for its two matched
\* holdings, after a HOLD directive that matches nothing and yields none.
C11_Witness ==
    /\ pc = "generated"
    /\ \E k, n \in DOMAIN fm_directives :
          /\ fm_directives[k].action = "HOLD"
          /\ Len(matching_holdings(fm_directives[k], holdings)) = 2
          /\ Len(DirRecs(k)) = 2
          /\ fm_directives[n].action = "HOLD"
          /\ fm_directives[n].applies_to = "ALL_CLIENTS"
          /\ matching_holdings(fm_directives[n], holdings) = <<>>
          /\ DirRecs(n) = <<>>

\* the holdings the recommendations of directive k were made for
RecHoldings(k, Match(_, _)) ==
    CodesOf(DirRecs(k)) = CodesOf(SelectSeq(holdings, LAMBDA h : Match(fm_directives[k], h)))

MatchAsStated(d, h) ==
    \/ d.target_type \in {"SECTOR", "ASSET_CLASS"} /\ upper(h.sector_tag) = upper(d.target)
    \/ d.target_type = "STOCK" /\ Contains(d.target, h.instrument_code)

MatchIgnoringCase(d, h) ==
    \/ d.target_type \in {"SECTOR", "ASSET_CLASS"} /\ upper(h.sector_tag) = upper(d.target)
    \/ d.target_type = "STOCK" /\ Contains(upper(d.target), upper(h.instrument_code))

\* C13 (as stated): a holding is matched by a directive exactly when
\* target_type is SECTOR or ASSET_CLASS and its sector_tag equals the target
\* ignoring case, or target_type is STOCK and its instrument_code contains
\* the target as a substring; any other target_type matches no holding.
C13_TargetResolutionAsStated ==
    pc = "generated" =>
        \A k \in DOMAIN fm_directives :
            (fm_directives[k].action \in {"HOLD", "REDUCE_EXPOSURE"}
                /\ Applies(fm_directives[k], client, sector_alloc(holdings)))
            => RecHoldings(k, MatchAsStated)

\* C13 (amended): as stated, except that for STOCK the instrument_code
\* contains the target as a substring ignoring case.
C13_TargetResolutionIgnoringCase ==
    pc = "generated" =>
        \A k \in DOMAIN fm_directives :
            (fm_directives[k].action \in {"HOLD", "REDUCE_EXPOSURE"}
                /\ Applies(fm_directives[k], client, sector_alloc(holdings)))
            => /\ RecHoldings(k, MatchIgnoringCase)
               /\ fm_directives[k].target_type
                     \notin {"SECTOR", "ASSET_CLASS", "STOCK"} => DirRecs(k) = <<>>

\* A STOCK directive for "tcs" whose recommendation is for NSE:TCS, with a
\* holding of another stock left out.
C13_Witness ==
    /\ pc = "generated"
    /\ \E k \in DOMAIN fm_directives :
          /\ fm_directives[k].target_type = "STOCK"
          /\ fm_directives[k].target = <<"t", "c", "s">>
          /\ CodesOf(DirRecs(k)) = <<TCS>>
          /\ Len(holdings) = 2

(***************************************************************************)
(* The applicability filter.                                               *)
(***************************************************************************)
AppliesTo ==
    {"ALL_CLIENTS", "MOMENTUM_STRATEGY", "CONSERVATIVE_CLIENTS", "AGGRESSIVE_CLIENTS",
     "CLIENTS_WITHOUT_GOLD", "CLIENTS_WITH_GOLD"}

ApplyDirectives ==
    {Directive("REDUCE_EXPOSURE", "SECTOR", IT, at, <<"5", "0", "%">>) : at \in AppliesTo}
    \cup {Directive("INCREASE_ALLOCATION", "ASSET_CLASS", GOLD, at, <<"2", "0", "%">>) :
            at \in AppliesTo}

ApplyHoldings ==
    {Holding(TCS, IT, 100000, 100),
     Holding(INFY, <<"i", "t">>, 100001, 75),
     Holding(GOLDBEES, GOLD, 250000, 125)}

ApplyClients ==
    {Client(5000000, "CONSERVATIVE", "VALUE"), Client(5000000, "AGGRESSIVE", "MOMENTUM"),
     Client(5000000, "MODERATE", "VALUE")}

InitApply ==
    InitRecWith({WithIds(ds) : ds \in SeqUpTo(ApplyDirectives, MaxDirectives)},
                SeqUpTo(ApplyHoldings, MaxHoldings),
                {TCS :> Signal(-700)}, {<<>>}, ApplyClients)

SpecApply == InitApply /\ [][NextRec]_vars

\* the applies_to predicate of d is false for the client
PredicateFalse(d) ==
    LET has_gold == \E i \in DOMAIN holdings : holdings[i].sector_tag = GOLD
    IN  \/ d.applies_to = "MOMENTUM_STRATEGY" /\ client.strategy_type # "MOMENTUM"
        \/ d.applies_to = "CONSERVATIVE_CLIENTS" /\ client.risk_profile # "CONSERVATIVE"
        \/ d.applies_to = "AGGRESSIVE_CLIENTS" /\ client.risk_profile # "AGGRESSIVE"
        \/ d.applies_to = "CLIENTS_WITHOUT_GOLD" /\ has_gold
        \/ d.applies_to = "CLIENTS_WITH_GOLD" /\ ~has_gold

\* the directive list without its k-th element, ids kept
Without(ds, k) == SubSeq(ds, 1, k - 1) \o SubSeq(ds, k + 1, Len(ds))

\* C12: a directive whose applies_to predicate is false for the client
\* contributes no recommendation, and the output equals the output obtained
\* with the directive removed.
C12_ApplicabilityFilter ==
    pc = "generated" =>
        \A k \in DOMAIN fm_directives :
            PredicateFalse(fm_directives[k]) =>
                /\ DirRecs(k) = <<>>
                /\ result = mock_generate_recommendations(
                                Without(fm_directives, k), technical_signals,
                                sector_signals, client, holdings)

\* A skipped directive before an applied one: the recommendations are those
\* of the second directive alone, numbered from REC-001.
C12_Witness ==
    /\ pc = "generated"
    /\ Len(fm_directives) = 2
    /\ PredicateFalse(fm_directives[1])
    /\ fm_directives[1].applies_to = "AGGRESSIVE_CLIENTS"
    /\ matching_holdings(fm_directives[1], holdings) # <<>>
    /\ DirRecs(2) # <<>>
    /\ DirRecs(2)[1].rec_id = RecId(1)

(***************************************************************************)
(* run_pipeline from step 3 on: the symbol loop, the sector analysis, the  *)
(* batch over the clients, the compiled result.  What a fetch, the cache   *)
(* or a generation does on a given call is read from env.                  *)
(***************************************************************************)
\* s.replace(old, "") for a non-empty old
RECURSIVE Remove(_, _)
Remove(s, old) ==
    IF Len(s) < Len(old) THEN s
    ELSE IF SubSeq(s, 1, Len(old)) = old
      THEN Remove(SubSeq(s, Len(old) + 1, Len(s)), old)
    ELSE <<s[1]>> \o Remove(Tail(s), old)

TCS_NS == <<"T", "C", "S", ".", "N", "S">>
INFY_NS == <<"I", "N", "F", "Y", ".", "N", "S">>
\* nse_code = "NSE:" + symbol.replace(".NS", "")
nse_code(symbol) == <<"N", "S", "E", ":">> \o Remove(symbol, <<".", "N", "S">>)

NIFTY == <<"N", "I", "F", "T", "Y", "_">>
\* the leading keys of SECTOR_INDICES, in the order of the dict
SECTOR_INDICES ==
    <<NIFTY \o <<"5", "0">>, NIFTY \o <<"B", "A", "N", "K">>, NIFTY \o IT,
      NIFTY \o <<"P", "H", "A", "R", "M", "A">>, NIFTY \o <<"A", "U", "T", "O">>>>
\* How many of them the model keeps, the benchmark NIFTY_50 included.
NumSectors == 4
Sectors == SubSeq(SECTOR_INDICES, 1, NumSectors)

\* outcomes of a call: data that scores c, an empty frame, an exception
Ok(c) == [kind |-> "ok", composite_score |-> c]
Empty == [kind |-> "empty"]
Raise == [kind |-> "raise"]

\* Mutant: the sector loop gives up at the first sector without data.
RECURSIVE SectorLoop_Break(_, _)
SectorLoop_Break(e, k) ==
    IF k = 0 THEN <<>>
    ELSE LET before == SectorLoop_Break(e, k - 1)
             sector == Sectors[k]
             o == e.sector[sector]
         IN  IF sector = NIFTY \o <<"5", "0">> THEN before
             ELSE IF \E j \in 2..(k - 1) : e.sector[Sectors[j]].kind # "ok" THEN before
             ELSE IF o.kind # "ok" THEN before
             ELSE Append(before, [sector |-> Remove(sector, NIFTY),
                                  composite_score |-> o.composite_score,
                                  signal |-> SignalOf(o.composite_score)])

\* the `for sector, symbol in SECTOR_INDICES.items()` loop over Sectors[1..k]
RECURSIVE SectorLoop(_, _)
SectorLoop(e, k) ==
    IF k = 0 THEN <<>>
    ELSE LET before == SectorLoop(e, k - 1)
             sector == Sectors[k]
             o == e.sector[sector]
         IN  IF sector = NIFTY \o <<"5", "0">> THEN before
             ELSE IF o.kind # "ok" THEN before          \* continue / except
             ELSE Append(before, [sector |-> Remove(sector, NIFTY),
                                  composite_score |-> o.composite_score,
                                  signal |-> SignalOf(o.composite_score)])

\* Mutant: the sort ascending.
RECURSIVE InsertByComposite_Ascending(_, _)
InsertByComposite_Ascending(sorted, r) ==
    IF sorted = <<>> THEN <<r>>
    ELSE IF Head(sorted).composite_score <= r.composite_score
      THEN <<Head(sorted)>> \o InsertByComposite_Ascending(Tail(sorted), r)
    ELSE <<r>> \o sorted

\* results.sort(key=composite_score, reverse=True): stable, descending
RECURSIVE InsertByComposite(_, _)
InsertByComposite(sorted, r) ==
    IF sorted = <<>> THEN <<r>>
    ELSE IF Head(sorted).composite_score >= r.composite_score
      THEN <<Head(sorted)>> \o InsertByComposite(Tail(sorted), r)
    ELSE <<r>> \o sorted

RECURSIVE SortByComposite(_)
SortByComposite(rs) ==
    IF rs = <<>> THEN <<>>
    ELSE InsertByComposite(SortByComposite(SubSeq(rs, 1, Len(rs) - 1)), rs[Len(rs)])

\* the list analyze_sector_indices returns when it returns
analyze_sector_indices(e) ==
    IF e.benchmark.kind = "empty" THEN <<>>
    ELSE SortByComposite(SectorLoop(e, Len(Sectors)))

\* every arrangement of some of the elements of S, none repeated
Arrangements(S) ==
    {q \in SeqUpTo(S, Cardinality(S)) : \A i, j \in DOMAIN q : i # j => q[i] # q[j]}
Range(q) == {q[i] : i \in DOMAIN q}

PipeClient(id, rest) ==
    [client_id |-> id, name |-> id, total_aum |-> rest.total_aum,
     risk_profile |-> rest.risk_profile, strategy_type |-> rest.strategy_type]
\* group_holdings_by_client: one entry per client
PipeClients ==
    {[client |-> PipeClient("C001", Client(5000000, "MODERATE", "MOMENTUM")),
      holdings |-> <<Holding(TCS, IT, 100000, 100), Holding(INFY, IT, 100001, 75)>>],
     [client |-> PipeClient("C002", Client(1050, "CONSERVATIVE", "VALUE")),
      holdings |-> <<Holding(GOLDBEES, GOLD, 250000, 125)>>]}
PipeDirectives ==
    WithIds(<<Directive("REDUCE_EXPOSURE", "SECTOR", IT, "ALL_CLIENTS", <<"5", "0", "%">>)>>)

SymbolOutcomes == {Ok(650), Empty, Raise}
SectorOutcomes == {Ok(450), Ok(-100), Empty, Raise}
Envs(symbols, clients) ==
    [symbol : [Range(symbols) -> SymbolOutcomes],
     benchmark : {Ok(0), Empty, Raise},
     sector : [Range(Sectors) \ {Sectors[1]} -> SectorOutcomes],
     client : [{clients[i].client.client_id : i \in DOMAIN clients} -> {Ok(0), Raise}]]

InitPipe ==
    /\ pc = "symbols"
    /\ unique_instruments \in Arrangements({TCS_NS, INFY_NS})
    /\ grouped \in Arrangements(PipeClients)
    /\ env \in Envs(unique_instruments, grouped)
    /\ fm_directives = PipeDirectives
    /\ technical_signals = <<>>
    /\ sector_signals = None
    /\ all_results = None
    /\ idx = 1
    /\ client = None /\ holdings = None /\ result = None
    /\ IdleScore
    /\ IdleAnalyze

\* Mutant: an exception in one symbol's analysis ends the symbol loop.
AnalyzeSymbol_Abort ==
    /\ pc = "symbols"
    /\ idx <= Len(unique_instruments)
    /\ LET symbol == unique_instruments[idx]
           o == env.symbol[symbol]
           analysed == IF o.kind = "empty" THEN NoData ELSE Signal(o.composite_score)
       IN  /\ technical_signals' =
                IF o.kind = "raise" THEN technical_signals
                ELSE (nse_code(symbol) :> analysed) @@ technical_signals
           /\ idx' = IF o.kind = "raise" THEN Len(unique_instruments) + 1 ELSE idx + 1
    /\ UNCHANGED <<pc, fm_directives, sector_signals, client, holdings, result, env,
                   unique_instruments, grouped, all_results, scoreVars, analyzeVars>>

\* One turn of `for symbol in unique_instruments`: analyze_instrument
\* returns an error entry for an empty fetch; an exception is caught here
\* and leaves no entry.
AnalyzeSymbol ==
    /\ pc = "symbols"
    /\ idx <= Len(unique_instruments)
    /\ LET symbol == unique_instruments[idx]
           o == env.symbol[symbol]
           analysed == IF o.kind = "empty" THEN NoData ELSE Signal(o.composite_score)
       IN  technical_signals' =
             IF o.kind = "raise" THEN technical_signals
             ELSE (nse_code(symbol) :> analysed) @@ technical_signals
    /\ idx' = idx + 1
    /\ UNCHANGED <<pc, fm_directives, sector_signals, client, holdings, result, env,
                   unique_instruments, grouped, all_results, scoreVars, analyzeVars>>

\* After the symbol loop: analyze_sector_indices inside its try/except,
\* then generate_recommendations_batch starts with an empty list.
AnalyzeSectors ==
    /\ pc = "symbols"
    /\ idx > Len(unique_instruments)
    /\ sector_signals' =
          IF env.benchmark.kind = "raise" THEN <<>> ELSE analyze_sector_indices(env)
    /\ all_results' = <<>>
    /\ idx' = 1
    /\ pc' = "batch"
    /\ UNCHANGED <<fm_directives, technical_signals, client, holdings, result, env,
                   unique_instruments, grouped, scoreVars, analyzeVars>>

ErrorEntry(cl) ==
    [client_summary |-> [client_id |-> cl.client_id, name |-> cl.name],
     recommendations |-> <<>>,
     alerts |-> <<"Error generating recommendations">>]

\* One turn of `for client_data in clients_with_holdings`.
GenerateForClient ==
    /\ pc = "batch"
    /\ idx <= Len(grouped)
    /\ LET client_data == grouped[idx]
       IN  all_results' = Append(all_results,
             IF env.client[client_data.client.client_id].kind = "raise"
               THEN ErrorEntry(client_data.client)
               ELSE mock_generate_recommendations(fm_directives, technical_signals,
                        sector_signals, client_data.client, client_data.holdings))
    /\ idx' = idx + 1
    /\ UNCHANGED <<pc, fm_directives, technical_signals, sector_signals, client, holdings,
                   result, env, unique_instruments, grouped, scoreVars, analyzeVars>>

RECURSIVE TotalRecommendations(_)
TotalRecommendations(rs) ==
    IF rs = <<>> THEN 0
    ELSE Len(Head(rs).recommendations) + TotalRecommendations(Tail(rs))

\* Step 5: the batch is over, pipeline_result is compiled and returned.
CompileResults ==
    /\ pc = "batch"
    /\ idx > Len(grouped)
    /\ result' = [fm_directives |-> fm_directives,
                  technical_signals_count |-> Cardinality(DOMAIN technical_signals),
                  sector_signals |-> sector_signals,
                  client_count |-> Len(grouped),
                  recommendations |-> all_results,
                  total_recommendations |-> TotalRecommendations(all_results)]
    /\ pc' = "done"
    /\ UNCHANGED <<fm_directives, technical_signals, sector_signals, client, holdings,
                   pipeVars, scoreVars, analyzeVars>>

NextPipe == AnalyzeSymbol \/ AnalyzeSectors \/ GenerateForClient \/ CompileResults

SpecPipe == InitPipe /\ [][NextPipe]_vars

\* C14: failure isolation.  A fetch or analysis failure for one symbol does
\* not stop the others: once the symbol loop is over every symbol whose own
\* analysis did not raise has its entry, an error entry if its fetch came
\* back empty.  generate_recommendations_batch returns exactly one entry per
\* input client in input order, and the entry of a client whose generation
\* raised has an empty recommendation list and an alert.
C14_FailureIsolation ==
    /\ pc \in {"batch", "done"} =>
          \A i \in DOMAIN unique_instruments :
              LET symbol == unique_instruments[i]
                  o == env.symbol[symbol]
              IN  o.kind # "raise" =>
                    /\ nse_code(symbol) \in DOMAIN technical_signals
                    /\ technical_signals[nse_code(symbol)]
                          = IF o.kind = "empty" THEN NoData ELSE Signal(o.composite_score)
    /\ pc = "done" =>
          /\ Len(result.recommendations) = Len(grouped)
          /\ \A i \in DOMAIN grouped :
                LET entry == result.recommendations[i]
                    cl == grouped[i].client
                IN  /\ entry.client_summary.client_id = cl.client_id
                    /\ env.client[cl.client_id].kind = "raise" =>
                          entry.recommendations = <<>> /\ entry.alerts # <<>>
                    /\ env.client[cl.client_id].kind = "ok" =>
                          entry = mock_generate_recommendations(fm_directives,
                                      technical_signals, sector_signals, cl,
                                      grouped[i].holdings)

\* A run in which the first symbol's analysis raised and the first client's
\* generation raised: the second symbol is analysed and the second client
\* gets its recommendations.
C14_Witness ==
    /\ pc = "done"
    /\ Len(unique_instruments) = 2
    /\ env.symbol[unique_instruments[1]].kind = "raise"
    /\ nse_code(unique_instruments[2]) \in DOMAIN technical_signals
    /\ Len(grouped) = 2
    /\ env.client[grouped[1].client.client_id].kind = "raise"
    /\ result.recommendations[1].recommendations = <<>>
    /\ result.recommendations[2].recommendations # <<>>

\* the sectors of the result, by name
SectorsIn(list) == {list[i].sector : i \in DOMAIN list}
\* the codes of the symbols whose analysis did not raise
AnalysedCodes ==
    {nse_code(unique_instruments[i]) :
        i \in {j \in DOMAIN unique_instruments :
                  env.symbol[unique_instruments[j]].kind # "raise"}}

\* C15: an empty benchmark fetch makes the sector analysis return an empty
\* list; a failed fetch or an exception for one sector only omits that
\* sector, every other sector whose data is available is in the result; a
\* failed sector analysis leaves the per-instrument signals as they were.
C15_SectorFailures ==
    pc \in {"batch", "done"} =>
        /\ env.benchmark.kind = "empty" => sector_signals = <<>>
        /\ env.benchmark.kind = "ok" =>
              SectorsIn(sector_signals)
                 = {Remove(Sectors[k], NIFTY) :
                       k \in {j \in 2..Len(Sectors) : env.sector[Sectors[j]].kind = "ok"}}
        /\ env.benchmark.kind # "ok" =>
              /\ sector_signals = <<>>
              /\ DOMAIN technical_signals = AnalysedCodes

\* The benchmark is there, one sector's fetch is empty, another sector
\* raises, and the third is in the result.
C15_Witness ==
    /\ pc = "done"
    /\ env.benchmark.kind = "ok"
    /\ env.sector[Sectors[2]].kind = "empty"
    /\ env.sector[Sectors[3]].kind = "raise"
    /\ env.sector[Sectors[4]].kind = "ok"
    /\ Len(sector_signals) = 1
    /\ sector_signals[1].sector = Remove(Sectors[4], NIFTY)

\* C16: the list analyze_sector_indices returns is ordered by composite
\* score, non-increasing from first to last, and the benchmark is never an
\* entry.
C16_SectorsRanked ==
    pc \in {"batch", "done"} =>
        /\ \A i, j \in DOMAIN sector_signals :
              i < j => sector_signals[i].composite_score >= sector_signals[j].composite_score
        /\ \A i \in DOMAIN sector_signals :
              sector_signals[i].sector # Remove(Sectors[1], NIFTY)

\* Three sectors analysed, the first of SECTOR_INDICES the weakest: it is
\* the last of the result.
C16_Witness ==
    /\ pc = "done"
    /\ Len(sector_signals) = 3
    /\ env.sector[Sectors[2]] = Ok(-100)
    /\ env.sector[Sectors[3]] = Ok(450)
    /\ sector_signals[3].sector = Remove(Sectors[2], NIFTY)
    /\ sector_signals[1].composite_score = 450

(***************************************************************************)
(* compute_composite_score, one sub-score at a time, on every value of the *)
(* cells the sub-score reads (whole numbers, NaN, absent).                 *)
(***************************************************************************)
NeutralRow ==
    [price_vs_200dma |-> "ABOVE", dma_cross |-> "NONE", adx |-> Num(20),
     rsi_14 |-> Num(50), macd_crossover |-> "NEUTRAL", stoch_rsi |-> Num(50),
     volume_signal |-> "NORMAL", obv_trend |-> "FLAT", bb_position |-> "MIDDLE",
     pct_from_52w_high |-> Num(-20), pct_from_52w_low |-> Num(50)]

\* every value of an oscillator cell: RSI, StochRSI and ADX live in 0..100
OscCells == {NaN, Missing} \cup {Num(x) : x \in 0..MaxOsc}

InitScoreOn(rows) ==
    /\ pc = "score"
    /\ row \in rows
    /\ scores = None
    /\ IdleAnalyze
    /\ IdleRec
    /\ IdlePipe

MomentumRows ==
    {[NeutralRow EXCEPT !.rsi_14 = a, !.macd_crossover = b, !.stoch_rsi = c] :
        a \in OscCells, b \in {"BULLISH", "BEARISH", "NEUTRAL", "MISSING"}, c \in OscCells}

SpecMomentum == InitScoreOn(MomentumRows) /\ [][NextScore]_vars

RsiZoneTerm(rsi) ==
    IF rsi < 30 THEN 40
    ELSE IF rsi > 70 THEN -40
    ELSE IF 30 <= rsi /\ rsi < 45 THEN 15
    ELSE IF 55 < rsi /\ rsi <= 70 THEN -15
    ELSE 0
MacdTerm(c) == IF c = "BULLISH" THEN 35 ELSE IF c = "BEARISH" THEN -35 ELSE 0
StochTerm(x) == IF x < 20 THEN 25 ELSE IF x > 80 THEN -25 ELSE 0

\* C17: for every RSI, MACD-crossover and StochRSI value, momentum is the
\* RSI zone term plus the crossover term plus the StochRSI term, clamped to
\* [-100, 100]; the oversold bonuses apply at RSI = 0 and StochRSI = 0.
C17_MomentumAsStated ==
    (pc = "scored" /\ row.rsi_14.kind = "num" /\ row.stoch_rsi.kind = "num") =>
        scores.momentum_score
           = Clamp(RsiZoneTerm(row.rsi_14.v) + MacdTerm(row.macd_crossover)
                     + StochTerm(row.stoch_rsi.v))

\* What the scorer does: the sum of C17, except that an RSI of exactly 0 and
\* a StochRSI of exactly 0 contribute nothing.
MomentumAsCoded ==
    (pc = "scored" /\ row.rsi_14.kind = "num" /\ row.stoch_rsi.kind = "num") =>
        scores.momentum_score
           = Clamp((IF row.rsi_14.v = 0 THEN 0 ELSE RsiZoneTerm(row.rsi_14.v))
                     + MacdTerm(row.macd_crossover)
                     + (IF row.stoch_rsi.v = 0 THEN 0 ELSE StochTerm(row.stoch_rsi.v)))

\* How far above its 52-week low a close is drawn, in percent.
MaxRise == 6
StrengthRows ==
    {[NeutralRow EXCEPT !.pct_from_52w_high = a, !.pct_from_52w_low = b] :
        a \in {NaN, Missing} \cup {Num(-x) : x \in 0..MaxDrawdown},
        b \in {NaN, Missing} \cup {Num(x) : x \in 0..MaxRise}}

SpecStrength == InitScoreOn(StrengthRows) /\ [][NextScore]_vars

\* C18: for every pair (pct_from_52w_high, pct_from_52w_low) the
\* relative-strength score is +40 if pct_from_52w_high > -5 (a close at the
\* high, pct = 0, included), -30 if it is below -30, plus -20 if
\* pct_from_52w_low < 5 (a close at the low, pct = 0, included), clamped.
C18_RelativeStrengthAsStated ==
    (pc = "scored" /\ row.pct_from_52w_high.kind = "num"
        /\ row.pct_from_52w_low.kind = "num") =>
        scores.relative_strength_score
           = Clamp((IF row.pct_from_52w_high.v > -5 THEN 40
                    ELSE IF row.pct_from_52w_high.v < -30 THEN -30 ELSE 0)
                   + (IF row.pct_from_52w_low.v < 5 THEN -20 ELSE 0))

\* What the scorer does: the sum of C18, except that a close exactly at the
\* 52-week high and a close exactly at the 52-week low contribute nothing.
RelativeStrengthAsCoded ==
    (pc = "scored" /\ row.pct_from_52w_high.kind = "num"
        /\ row.pct_from_52w_low.kind = "num") =>
        scores.relative_strength_score
           = Clamp((IF row.pct_from_52w_high.v = 0 THEN 0
                    ELSE IF row.pct_from_52w_high.v > -5 THEN 40
                    ELSE IF row.pct_from_52w_high.v < -30 THEN -30 ELSE 0)
                   + (IF row.pct_from_52w_low.v = 0 THEN 0
                      ELSE IF row.pct_from_52w_low.v < 5 THEN -20 ELSE 0))

TrendRows ==
    {[NeutralRow EXCEPT !.price_vs_200dma = a, !.dma_cross = b, !.adx = c] :
        a \in {"ABOVE", "BELOW"},
        b \in {"GOLDEN_CROSS", "DEATH_CROSS", "NONE"},
        c \in OscCells}

SpecTrend == InitScoreOn(TrendRows) /\ [][NextScore]_vars

\* trend before the ADX rule, as C19 states it
TrendStart(r) ==
    (IF r.price_vs_200dma = "ABOVE" THEN 30 ELSE -30)
      + (IF r.dma_cross = "GOLDEN_CROSS" THEN 40
         ELSE IF r.dma_cross = "DEATH_CROSS" THEN -40 ELSE 0)

\* C19: trend starts at +30 ABOVE the 200DMA and -30 BELOW, adds +40 on
\* GOLDEN_CROSS or -40 on DEATH_CROSS; then for every ADX value: above 30 it
\* moves 20 further in the direction of its sign, below 15 (ADX = 0
\* included) it is halved, otherwise unchanged; the result is clamped.
C19_TrendAsStated ==
    (pc = "scored" /\ row.adx.kind = "num") =>
        LET t == TrendStart(row)
        IN  /\ row.adx.v > 30 =>
                  scores.trend_score = Clamp(IF t > 0 THEN t + 20 ELSE t - 20)
            /\ row.adx.v < 15 => 2 * scores.trend_score = t
            /\ (15 <= row.adx.v /\ row.adx.v <= 30) => scores.trend_score = Clamp(t)

\* What the scorer does: as C19, except that an ADX of exactly 0 leaves the
\* accumulated value as it is.
TrendAsCoded ==
    (pc = "scored" /\ row.adx.kind = "num") =>
        LET t == TrendStart(row)
        IN  /\ row.adx.v > 30 =>
                  scores.trend_score = Clamp(IF t > 0 THEN t + 20 ELSE t - 20)
            /\ (0 < row.adx.v /\ row.adx.v < 15) => 2 * scores.trend_score = t
            /\ (row.adx.v = 0 \/ (15 <= row.adx.v /\ row.adx.v <= 30)) =>
                  scores.trend_score = Clamp(t)

(***************************************************************************)
(* Bollinger position (technical_signals.py, compute_all_indicators and    *)
(* _bb_position).  A bar of the frame is its close together with the       *)
(* closes of the bars before it that the rolling window still covers; the  *)
(* window's mean and standard deviation do not depend on their order, so   *)
(* the earlier closes are kept as a count per price.  Band comparisons are *)
(* made exactly, on the sums of the window, without taking a square root.  *)
(***************************************************************************)
\* TECHNICAL_CONFIG["bb_period"] and TECHNICAL_CONFIG["bb_std"]
bb_period == 20
bb_std == 2

\* closes are whole prices 1..MaxPrice
MaxPrice == 3
Prices == 1..MaxPrice

\* sum of f(p) * w[p] over the prices p <= top
RECURSIVE WindowSum(_, _, _)
WindowSum(w, top, power) ==
    IF top = 0 THEN 0
    ELSE WindowSum(w, top - 1, power)
         + w[top] * (IF power = 0 THEN 1 ELSE IF power = 1 THEN top ELSE top * top)

\* the bars of a frame: a close and the (at most bb_period - 1) closes before
\* it inside the window
Bars ==
    {[close |-> c, prior |-> w] :
        c \in Prices,
        w \in {v \in [Prices -> 0..(bb_period - 1)] :
                  WindowSum(v, MaxPrice, 0) <= bb_period - 1}}

WindowLen(bar) == 1 + WindowSum(bar.prior, MaxPrice, 0)
WindowTotal(bar) == bar.close + WindowSum(bar.prior, MaxPrice, 1)
WindowSquares(bar) == bar.close * bar.close + WindowSum(bar.prior, MaxPrice, 2)

\* close.rolling(window=bb_period): NaN until the window holds bb_period bars
BandsAreNaN(bar) == WindowLen(bar) < bb_period

\* with n = bb_period: n * (close - bb_mid), and n * n * (n - 1) * variance
Deviation(bar) == bb_period * bar.close - WindowTotal(bar)
Spread(bar) ==
    bb_period * (bb_period * WindowSquares(bar) - WindowTotal(bar) * WindowTotal(bar))

\* |close - bb_mid| >= bb_std * (rolling std), both sides squared and scaled
OutsideWidth(bar) ==
    (bb_period - 1) * Deviation(bar) * Deviation(bar) >= bb_std * bb_std * Spread(bar)

\* close >= bb_mid + bb_std * std; a comparison with NaN is False
CloseGeUpper(bar) == ~BandsAreNaN(bar) /\ Deviation(bar) >= 0 /\ OutsideWidth(bar)
\* close <= bb_mid - bb_std * std
CloseLeLower(bar) == ~BandsAreNaN(bar) /\ Deviation(bar) <= 0 /\ OutsideWidth(bar)

\* result = "MIDDLE"; result[close >= upper] = "UPPER";
\* result[close <= lower] = "LOWER": the later assignment overwrites
_bb_position(bar) ==
    LET result0 == "MIDDLE"
        result1 == IF CloseGeUpper(bar) THEN "UPPER" ELSE result0
        result2 == IF CloseLeLower(bar) THEN "LOWER" ELSE result1
    IN  result2

InitBollinger ==
    /\ pc = "bands"
    /\ row \in Bars
    /\ scores = None
    /\ IdleAnalyze
    /\ IdleRec
    /\ IdlePipe

\* df["bb_position"] = self._bb_position(close, df["bb_upper"], df["bb_lower"])
LabelBar ==
    /\ pc = "bands"
    /\ row' = [close |-> row.close, prior |-> row.prior,
               bb_position |-> _bb_position(row)]
    /\ pc' = "labelled"
    /\ UNCHANGED <<scores, analyzeVars, recVars, pipeVars>>

NextBollinger == LabelBar

SpecBollinger == InitBollinger /\ [][NextBollinger]_vars

\* the window is flat: every close in it equals the bar's close, so the
\* standard deviation is zero and both bands coincide with the close
FlatWindow(bar) == ~BandsAreNaN(bar) /\ Spread(bar) = 0

\* C20: every bar is labelled UPPER if close >= upper band, otherwise LOWER if
\* close <= lower band, otherwise MIDDLE; in particular a bar whose bands
\* coincide with its close (flat window) is labelled UPPER.
C20_BollingerLabelAsStated ==
    pc = "labelled" =>
        /\ row.bb_position =
              (IF CloseGeUpper(row) THEN "UPPER"
               ELSE IF CloseLeLower(row) THEN "LOWER"
               ELSE "MIDDLE")
        /\ FlatWindow(row) => row.bb_position = "UPPER"

\* What the code does: LOWER wins when both comparisons hold, which is
\* exactly the flat window; everywhere else the stated rule is met.
BollingerLabelAsCoded ==
    pc = "labelled" =>
        /\ row.bb_position =
              (IF CloseLeLower(row) THEN "LOWER"
               ELSE IF CloseGeUpper(row) THEN "UPPER"
               ELSE "MIDDLE")
        /\ (CloseGeUpper(row) /\ CloseLeLower(row)) <=> FlatWindow(row)
        /\ FlatWindow(row) => row.bb_position = "LOWER"
        /\ BandsAreNaN(row) => row.bb_position = "MIDDLE"

(***************************************************************************)
(* Crossover labels (technical_signals.py, _macd_crossover and _dma_cross).*)
(* The frame holds the two lines as columns; each function labels every    *)
(* bar from the difference of the lines at the bar and at the bar before.  *)
(***************************************************************************)
\* the lines take whole levels 0..MaxLevel over at most MaxSeries bars
MaxLevel == 1
MaxSeries == 3

\* a - b on two cells; NaN propagates
CellSub(a, b) == IF a.kind = "num" /\ b.kind = "num" THEN Num(a.v - b.v) ELSE NaN
\* comparisons of a cell with 0; a comparison with NaN is False
Lt0(c) == c.kind = "num" /\ c.v < 0
Gt0(c) == c.kind = "num" /\ c.v > 0

\* (x - y) on two columns, and Series.shift(1)
ColumnSub(x, y) == [i \in 1..Len(x) |-> CellSub(x[i], y[i])]
Shift1(x) == [i \in 1..Len(x) |-> IF i = 1 THEN NaN ELSE x[i - 1]]

_macd_crossover_Inclusive(macd_line, signal_line) ==
    LET curr_diff == ColumnSub(macd_line, signal_line)
        prev_diff == Shift1(curr_diff)
    IN  [i \in 1..Len(macd_line) |->
            IF ~Gt0(prev_diff[i]) /\ prev_diff[i].kind = "num" /\ Gt0(curr_diff[i])
            THEN "BULLISH"
            ELSE IF Gt0(prev_diff[i]) /\ Lt0(curr_diff[i]) THEN "BEARISH"
            ELSE "NEUTRAL"]

_macd_crossover(macd_line, signal_line) ==
    LET curr_diff == ColumnSub(macd_line, signal_line)
        prev_diff == Shift1(curr_diff)
    IN  [i \in 1..Len(macd_line) |->
            LET result0 == "NEUTRAL"
                result1 == IF Lt0(prev_diff[i]) /\ Gt0(curr_diff[i])
                           THEN "BULLISH" ELSE result0
                result2 == IF Gt0(prev_diff[i]) /\ Lt0(curr_diff[i])
                           THEN "BEARISH" ELSE result1
            IN  result2]

_dma_cross(sma_short, sma_long) ==
    LET curr_diff == ColumnSub(sma_short, sma_long)
        prev_diff == Shift1(curr_diff)
    IN  [i \in 1..Len(sma_short) |->
            LET result0 == "NONE"
                result1 == IF Lt0(prev_diff[i]) /\ Gt0(curr_diff[i])
                           THEN "GOLDEN_CROSS" ELSE result0
                result2 == IF Gt0(prev_diff[i]) /\ Lt0(curr_diff[i])
                           THEN "DEATH_CROSS" ELSE result1
            IN  result2]

Levels == {Num(x) : x \in 0..MaxLevel}
\* the MACD and signal lines are exponential averages, defined from bar 1
EwmColumns == UNION {[1..n -> Levels] : n \in 1..MaxSeries}
\* a rolling mean is NaN until its window is full, and defined from then on
RollingColumns ==
    {[i \in 1..Len(x) |-> IF i <= k THEN NaN ELSE x[i]] :
        x \in EwmColumns, k \in 0..MaxSeries}

InitCross ==
    /\ \/ /\ pc = "macd"
          /\ \E x \in EwmColumns, y \in EwmColumns :
                /\ Len(x) = Len(y)
                /\ df = [macd_line |-> x, signal_line |-> y]
       \/ /\ pc = "dma"
          /\ \E x \in RollingColumns, y \in RollingColumns :
                /\ Len(x) = Len(y)
                /\ df = [sma_50 |-> x, sma_200 |-> y]
    /\ df_len = 0
    /\ analysis = None
    /\ IdleScore
    /\ IdleRec
    /\ IdlePipe

\* df["macd_crossover"] = self._macd_crossover(macd_line, signal_line)
MacdCrossover ==
    /\ pc = "macd"
    /\ df' = [macd_line |-> df.macd_line, signal_line |-> df.signal_line,
              macd_crossover |-> _macd_crossover(df.macd_line, df.signal_line)]
    /\ pc' = "macd_done"
    /\ UNCHANGED <<df_len, analysis, scoreVars, recVars, pipeVars>>

\* df["dma_cross"] = self._dma_cross(df["sma_50"], df["sma_200"])
DmaCross ==
    /\ pc = "dma"
    /\ df' = [sma_50 |-> df.sma_50, sma_200 |-> df.sma_200,
              dma_cross |-> _dma_cross(df.sma_50, df.sma_200)]
    /\ pc' = "dma_done"
    /\ UNCHANGED <<df_len, analysis, scoreVars, recVars, pipeVars>>

NextCross == MacdCrossover \/ DmaCross

SpecCross == InitCross /\ [][NextCross]_vars

\* Reading a labelled frame: the difference column d, the labels, and the
\* names the function in hand gives to an upward and a downward crossing.
CrossDone == pc \in {"macd_done", "dma_done"}
CrossDiff ==
    IF pc = "macd_done" THEN ColumnSub(df.macd_line, df.signal_line)
    ELSE ColumnSub(df.sma_50, df.sma_200)
CrossLabels == IF pc = "macd_done" THEN df.macd_crossover ELSE df.dma_cross
UpLabel == IF pc = "macd_done" THEN "BULLISH" ELSE "GOLDEN_CROSS"
DownLabel == IF pc = "macd_done" THEN "BEARISH" ELSE "DEATH_CROSS"
NoLabel == IF pc = "macd_done" THEN "NEUTRAL" ELSE "NONE"

\* sign of a cell: -1, 0, 1, and 0 for an undefined one
SignOf(c) == IF Lt0(c) THEN -1 ELSE IF Gt0(c) THEN 1 ELSE 0

\* number of times the sign of d changes along the series, a passage through
\* zero or through undefined bars counted once
RECURSIVE SignChanges(_, _, _)
SignChanges(d, i, last) ==
    IF i > Len(d) THEN 0
    ELSE LET sg == SignOf(d[i])
         IN  IF sg = 0 THEN SignChanges(d, i + 1, last)
             ELSE (IF last # 0 /\ sg # last THEN 1 ELSE 0) + SignChanges(d, i + 1, sg)

\* C21: bar i is labelled BULLISH (GOLDEN_CROSS) when d is negative at bar
\* i-1 and positive at bar i, BEARISH (DEATH_CROSS) when positive then
\* negative, and NEUTRAL (NONE) otherwise, the first bar and bars next to a
\* zero or undefined d included; labels never outnumber the sign changes.
C21_CrossoverLabels ==
    CrossDone =>
        LET d == CrossDiff
            lab == CrossLabels
        IN  /\ Len(lab) = Len(d)
            /\ \A i \in 1..Len(d) :
                  lab[i] =
                     (IF i > 1 /\ SignOf(d[i - 1]) = -1 /\ SignOf(d[i]) = 1 THEN UpLabel
                      ELSE IF i > 1 /\ SignOf(d[i - 1]) = 1 /\ SignOf(d[i]) = -1
                           THEN DownLabel
                      ELSE NoLabel)
            /\ Cardinality({i \in 1..Len(d) : lab[i] # NoLabel}) <= SignChanges(d, 1, 0)

\* an upward and a downward crossing labelled in one series, or a sign change
\* through a zero bar that earns no label
C21_Witness ==
    /\ CrossDone
    /\ LET d == CrossDiff
           lab == CrossLabels
       IN  \/ /\ \E i \in 1..Len(d) : lab[i] = UpLabel
              /\ \E i \in 1..Len(d) : lab[i] = DownLabel
              /\ pc = "macd_done"
           \/ /\ Len(d) = 3
              /\ SignOf(d[1]) = -1 /\ SignOf(d[2]) = 0 /\ SignOf(d[3]) = 1
              /\ \A i \in 1..3 : lab[i] = NoLabel
              /\ pc = "dma_done"

(***************************************************************************)
(* The technical-alert pass of mock_generate_recommendations, read from    *)
(* the returned list.                                                      *)
(***************************************************************************)
\* the recommendations appended before r
BuiltBefore(r) == {q \in Range(Recs) : GenIndex(q) < GenIndex(r)}
\* the standalone recommendations of the alert pass
Standalone == {r \in Range(Recs) : r.fm_directive_ref = None}

\* C22: a standalone recommendation stands for a holding whose signal is
\* STRONG_BUY or STRONG_SELL and whose instrument_code no recommendation
\* built before it carries; it is ACCUMULATE for STRONG_BUY and REVIEW for
\* STRONG_SELL, with amount 0, confidence 45, priority MEDIUM, no directive
\* reference and allocation_after equal to allocation_before; a holding with
\* any other signal has none.
C22_AlertPass ==
    pc = "generated" =>
        /\ \A r \in Standalone :
              /\ \E i \in DOMAIN holdings :
                    /\ holdings[i].instrument_code = r.instrument_code
                    /\ HasExtremeSignal(holdings[i])
                    /\ r.allocation_before_pct = holdings[i].allocation_pct
                    /\ r.action =
                          (IF technical_signals[r.instrument_code].signal = "STRONG_BUY"
                           THEN "ACCUMULATE" ELSE "REVIEW")
              /\ \A q \in BuiltBefore(r) : q.instrument_code # r.instrument_code
              /\ r.amount = 0
              /\ r.confidence = 45
              /\ r.priority = "MEDIUM"
              /\ r.allocation_after_pct = r.allocation_before_pct
        /\ \A i \in DOMAIN holdings :
              ~HasExtremeSignal(holdings[i]) =>
                 \A r \in Standalone : r.instrument_code # holdings[i].instrument_code

\* an ACCUMULATE and a REVIEW alert in one result, or an alert next to a
\* STRONG holding that a directive's recommendation already covers
C22_Witness ==
    /\ pc = "generated"
    /\ \E r \in Standalone : r.action = "ACCUMULATE"
    /\ \/ \E r \in Standalone : r.action = "REVIEW"
       \/ \E i \in DOMAIN holdings :
             /\ HasExtremeSignal(holdings[i])
             /\ \A r \in Standalone : r.instrument_code # holdings[i].instrument_code

(***************************************************************************)
(* The sector allocation map and the allocations the recommendations       *)
(* report.                                                                 *)
(***************************************************************************)
\* directives of every kind that reports an allocation, over holdings that
\* share a sector or hold gold
AllocDirectives ==
    {Directive("REDUCE_EXPOSURE", "SECTOR", IT, "ALL_CLIENTS", <<"5", "0", "%">>),
     Directive("INCREASE_EXPOSURE", "SECTOR", <<"i", "t">>, "ALL_CLIENTS", <<>>),
     Directive("INCREASE_ALLOCATION", "ASSET_CLASS", GOLD, "CLIENTS_WITHOUT_GOLD",
               <<"2", "0", "%">>),
     Directive("INCREASE_ALLOCATION", "ASSET_CLASS", GOLD, "CLIENTS_WITH_GOLD", <<>>)}

AllocHoldings ==
    {Holding(TCS, IT, 100000, 100),
     Holding(INFY, IT, 100001, 25),
     Holding(GOLDBEES, GOLD, 250000, 125)}

InitAlloc ==
    InitRecWith({WithIds(ds) : ds \in SeqUpTo(AllocDirectives, MaxDirectives)},
                SeqUpTo(AllocHoldings, MaxHoldings),
                {<<>>, TCS :> Signal(-700)}, {<<>>}, MixedClients)

SpecAlloc == InitAlloc /\ [][NextRec]_vars

\* the map returned as portfolio_impact.sector_allocation_after
ReportedMap == result.portfolio_impact.sector_allocation_after
\* sum of allocation_pct over the client's holdings tagged tag
TagTotal(tag) == TotalAllocation(SelectSeq(holdings, LAMBDA h : h.sector_tag = tag))
\* the directive a directive-driven recommendation refers to
DirOf(r) == fm_directives[DirPos(r)]

MapIsSums ==
    ReportedMap = [tag \in {holdings[i].sector_tag : i \in DOMAIN holdings} |-> TagTotal(tag)]

\* gold applicability and the 15% gates read the map
GatesReadMap ==
    \A r \in Range(Recs) :
        r.fm_directive_ref # None =>
            /\ DirOf(r).applies_to = "CLIENTS_WITHOUT_GOLD" => GOLD \notin DOMAIN ReportedMap
            /\ DirOf(r).applies_to = "CLIENTS_WITH_GOLD" => GOLD \in DOMAIN ReportedMap
            /\ DirOf(r).action = "INCREASE_EXPOSURE" =>
                  /\ r.allocation_before_pct = AllocGet(ReportedMap, upper(DirOf(r).target))
                  /\ r.allocation_before_pct < 150
            /\ DirOf(r).action = "INCREASE_ALLOCATION" =>
                  /\ r.allocation_before_pct = AllocGet(ReportedMap, GOLD)
                  /\ r.allocation_before_pct < 150

\* allocation_after comes from the recommendation's own allocation_before
AfterFromOwnBefore ==
    \A r \in Range(Recs) :
        IF r.fm_directive_ref = None \/ r.action = "HOLD"
          THEN /\ r.allocation_after_pct = r.allocation_before_pct
               /\ \E i \in DOMAIN holdings :
                     /\ holdings[i].instrument_code = r.instrument_code
                     /\ holdings[i].allocation_pct = r.allocation_before_pct
        ELSE IF r.action = "REDEEM"
          THEN /\ r.allocation_after_pct =
                     RoundHalfEven(r.allocation_before_pct
                                      * (100 - ReducePct(DirOf(r).magnitude)), 100)
               /\ \E i \in DOMAIN holdings :
                     /\ holdings[i].instrument_code = r.instrument_code
                     /\ holdings[i].allocation_pct = r.allocation_before_pct
        ELSE IF DirOf(r).action = "INCREASE_EXPOSURE"
          THEN r.allocation_after_pct = r.allocation_before_pct + 50
        ELSE r.allocation_after_pct = 10 * GoldTargetPct(DirOf(r).magnitude)

\* C23: the sector allocation map is, per sector_tag, the sum of
\* allocation_pct over the client's holdings; the gold applicability checks
\* and the 15% gates read it; generating recommendations leaves the
\* holdings as they were and re-balances nothing: the reported map stays the
\* sum of the unchanged holdings and each allocation_after comes from that
\* recommendation's own allocation_before.
C23_NoRenormalisation ==
    [][(pc = "generate" /\ pc' = "generated") =>
          /\ holdings' = holdings
          /\ MapIsSums'
          /\ GatesReadMap'
          /\ AfterFromOwnBefore']_vars

\* a redemption that lowers a holding's allocation in a portfolio whose
\* allocations do not sum to 100%, next to a gated INVEST
C23_Witness ==
    /\ pc = "generated"
    /\ TotalAllocation(holdings) # 1000
    /\ \E r \in Range(Recs) :
          r.action = "REDEEM" /\ r.allocation_after_pct < r.allocation_before_pct
    /\ \E r \in Range(Recs) :
          r.action = "INVEST" /\ r.sector = IT /\ r.allocation_before_pct = TagTotal(IT)
    /\ \E tag \in DOMAIN ReportedMap : \E i, j \in DOMAIN holdings :
          i # j /\ holdings[i].sector_tag = tag /\ holdings[j].sector_tag = tag

(***************************************************************************)
(* RSI (technical_signals.py, _compute_rsi).  Averages are kept exactly:   *)
(* at bar i >= period the average is a numerator over                      *)
(* period^(i - period + 1), the same denominator for gains and losses.     *)
(***************************************************************************)
\* TECHNICAL_CONFIG["rsi_period"]
rsi_period == 14
\* bars after the first rsi_period bars
MaxTail == 2

\* delta = series.diff(): undefined at the first bar
SeriesDiff(series) ==
    [i \in 1..Len(series) |-> IF i = 1 THEN NaN ELSE Num(series[i] - series[i - 1])]
\* gain = delta.where(delta > 0, 0.0); loss = (-delta).where(delta < 0, 0.0)
GainOf(delta) == [i \in 1..Len(delta) |-> IF Gt0(delta[i]) THEN delta[i].v ELSE 0]
LossOf(delta) == [i \in 1..Len(delta) |-> IF Lt0(delta[i]) THEN -delta[i].v ELSE 0]

RECURSIVE SumTo(_, _)
SumTo(x, k) == IF k = 0 THEN 0 ELSE SumTo(x, k - 1) + x[k]
RECURSIVE Pow(_, _)
Pow(b, e) == IF e = 0 THEN 1 ELSE b * Pow(b, e - 1)

\* x.rolling(window=period, min_periods=period).mean() at bar `period`, then
\* avg[i] = (avg[i-1] * (period - 1) + x[i]) / period for the later bars;
\* the value at bar i >= period is WilderNum / period^(i - period + 1)
RECURSIVE WilderNum(_, _, _)
WilderNum(x, i, period) ==
    IF i = period THEN SumTo(x, period)
    ELSE WilderNum(x, i - 1, period) * (period - 1) + x[i] * Pow(period, i - period)

\* Mutant: a division by a zero average loss gives no value.
RsiCell_NoValueAtZeroLoss(avg_gain, avg_loss) ==
    IF avg_loss = 0 THEN NaN
    ELSE [kind |-> "num", num |-> avg_gain, den |-> avg_gain + avg_loss]

\* rs = avg_gain / avg_loss; rsi = 100 - (100 / (1 + rs)), kept as the
\* fraction num / den of 100 (rsi = 100 * num / den).  x / 0 is inf for x > 0
\* and NaN for x = 0; 100 / (1 + inf) is 0.
RsiCell(avg_gain, avg_loss) ==
    IF avg_loss = 0
      THEN (IF avg_gain = 0 THEN NaN ELSE [kind |-> "num", num |-> 1, den |-> 1])
    ELSE [kind |-> "num", num |-> avg_gain, den |-> avg_gain + avg_loss]

_compute_rsi(series, period) ==
    LET delta == SeriesDiff(series)
        gain == GainOf(delta)
        loss == LossOf(delta)
    IN  [i \in 1..Len(series) |->
            IF i < period THEN NaN
            ELSE RsiCell(WilderNum(gain, i, period), WilderNum(loss, i, period))]

\* close prices: a start price and one move per later bar
Moves == {-1, 0, 1}
RECURSIVE Walk(_)
Walk(moves) ==
    IF moves = <<>> THEN <<20>>
    ELSE LET before == Walk(SubSeq(moves, 1, Len(moves) - 1))
         IN  Append(before, before[Len(before)] + moves[Len(moves)])

\* the moves of the first rsi_period bars: u rises, then v falls, then flat
\* bars (the rolling mean does not depend on their order)
WarmUps ==
    {[i \in 1..(rsi_period - 1) |-> IF i <= u THEN 1 ELSE IF i <= u + v THEN -1 ELSE 0] :
        u \in 0..(rsi_period - 1), v \in 0..(rsi_period - 1)}

InitRsi ==
    /\ pc = "rsi"
    /\ \E w \in WarmUps, t \in SeqUpTo(Moves, MaxTail) : df = [close |-> Walk(w \o t)]
    /\ df_len = 0
    /\ analysis = None
    /\ IdleScore
    /\ IdleRec
    /\ IdlePipe

\* df["rsi_14"] = self._compute_rsi(close, TC["rsi_period"])
ComputeRsi ==
    /\ pc = "rsi"
    /\ df' = [close |-> df.close, rsi_14 |-> _compute_rsi(df.close, rsi_period)]
    /\ pc' = "rsi_done"
    /\ UNCHANGED <<df_len, analysis, scoreVars, recVars, pipeVars>>

NextRsi == ComputeRsi

SpecRsi == InitRsi /\ [][NextRsi]_vars

\* Reading the series: the rise and the fall at bar j (0 at the first bar,
\* whose delta is undefined)
RiseAt(j) == IF j > 1 /\ df.close[j] > df.close[j - 1] THEN df.close[j] - df.close[j - 1] ELSE 0
FallAt(j) == IF j > 1 /\ df.close[j] < df.close[j - 1] THEN df.close[j - 1] - df.close[j] ELSE 0
RECURSIVE SeedSum(_, _)
SeedSum(F(_), k) == IF k = 0 THEN 0 ELSE SeedSum(F, k - 1) + F(k)
\* the smoothed average at bar i >= 14 times 14^(i - 13), unrolled: the seed
\* is the simple mean of the first 14 entries, each later bar enters with
\* weight 1/14 and everything before it decays by 13/14
RECURSIVE Smoothed(_, _)
Smoothed(F(_), i) ==
    IF i = 14 THEN SeedSum(F, 14)
    ELSE 13 * Smoothed(F, i - 1) + F(i) * Pow(14, i - 14)

\* C24: from the 14th bar on, a series with no losing bar and some gaining
\* bar has RSI = 100 and a series with no gaining bar and some losing bar
\* has RSI = 0, where the averages start as the simple means of the first 14
\* entries of the gain and loss columns and then follow
\* avg = (avg_prev * 13 + current) / 14, and RSI = 100 - 100 / (1 + avg_gain / avg_loss).
C24_RsiBoundaries ==
    pc = "rsi_done" =>
        /\ Len(df.rsi_14) = Len(df.close)
        /\ \A i \in 1..Len(df.close) :
              LET g == IF i < 14 THEN 0 ELSE Smoothed(RiseAt, i)
                  l == IF i < 14 THEN 0 ELSE Smoothed(FallAt, i)
                  c == df.rsi_14[i]
              IN  IF i < 14 THEN c = NaN
                  ELSE /\ (l = 0 /\ g > 0) => (c.kind = "num" /\ c.num = c.den)
                       /\ (g = 0 /\ l > 0) => (c.kind = "num" /\ c.num = 0)
                       /\ (g > 0 /\ l > 0) =>
                             /\ c.kind = "num"
                             /\ c.num * (g + l) = g * c.den
                             /\ 0 < c.num /\ c.num < c.den
                       /\ (l = 0) <=> (\A j \in 2..i : df.close[j] >= df.close[j - 1])
                       /\ (g = 0) <=> (\A j \in 2..i : df.close[j] <= df.close[j - 1])

\* a rising series at RSI 100 on its last bar, a falling one at RSI 0, or a
\* series whose RSI leaves 100 when the first losing bar arrives
C24_Witness ==
    /\ pc = "rsi_done"
    /\ Len(df.close) = rsi_period + MaxTail
    /\ LET n == Len(df.close)
       IN  \/ /\ df.rsi_14[n].kind = "num" /\ df.rsi_14[n].num = df.rsi_14[n].den
              /\ df.close[n] > df.close[n - 1]
           \/ /\ df.rsi_14[n].kind = "num" /\ df.rsi_14[n].num = 0
              /\ df.close[n] < df.close[n - 1]
           \/ /\ df.rsi_14[n - 1].kind = "num"
              /\ df.rsi_14[n - 1].num = df.rsi_14[n - 1].den
              /\ df.rsi_14[n].kind = "num" /\ df.rsi_14[n].num < df.rsi_14[n].den

(***************************************************************************)
(* Bounds on the amounts and allocations recommended.                      *)
(***************************************************************************)
\* C25: every recommendation's amount is >= 0, and a REDEEM recommendation
\* asks for no more than the holding's current_value and leaves an
\* allocation_after between 0 and allocation_before, whatever magnitude the
\* directive carries.
C25_AmountsWithinBounds ==
    pc = "generated" =>
        /\ \A r \in Range(Recs) : r.amount >= 0
        /\ \A k \in DOMAIN fm_directives :
              LET mh == matching_holdings(fm_directives[k], holdings)
                  rs == DirRecs(k)
              IN  \A i \in DOMAIN rs :
                      rs[i].action = "REDEEM" =>
                          /\ rs[i].amount <= mh[i].current_value
                          /\ 0 <= rs[i].allocation_after_pct
                          /\ rs[i].allocation_after_pct <= rs[i].allocation_before_pct

\* What the code keeps: with a reduction percentage within 0..100 a REDEEM
\* stays within the holding, and a gold target at or above the current gold
\* allocation gives a non-negative amount.
AmountsWithinBoundsUpTo100 ==
    pc = "generated" =>
        \A k \in DOMAIN fm_directives :
            LET d == fm_directives[k]
                mh == matching_holdings(d, holdings)
                rs == DirRecs(k)
            IN  \A i \in DOMAIN rs :
                    /\ (rs[i].action = "REDEEM" /\ ReducePct(d.magnitude) \in 0..100) =>
                          /\ 0 <= rs[i].amount
                          /\ rs[i].amount <= mh[i].current_value
                          /\ 0 <= rs[i].allocation_after_pct
                          /\ rs[i].allocation_after_pct <= rs[i].allocation_before_pct
                    /\ (rs[i].action = "REDEEM" /\ ReducePct(d.magnitude) > 100) =>
                          /\ rs[i].amount > mh[i].current_value
                          /\ rs[i].allocation_after_pct < 0
                    /\ (d.action = "INCREASE_ALLOCATION") =>
                          /\ rs[i].allocation_after_pct >= rs[i].allocation_before_pct
                                => rs[i].amount >= 0
                          /\ rs[i].amount < 0
                                => rs[i].allocation_after_pct < rs[i].allocation_before_pct

(***************************************************************************)
(* Numbering of the recommendations.                                       *)
(***************************************************************************)
\* position in holdings of the first holding with the given instrument_code
FirstHolding(code) ==
    CHOOSE i \in DOMAIN holdings :
        /\ holdings[i].instrument_code = code
        /\ \A j \in 1..(i - 1) : holdings[j].instrument_code # code

\* C26: the rec_id values of one result are pairwise distinct and are exactly
\* REC-001 .. REC-n for the n recommendations returned; they number the
\* recommendations in generation order (directives in input order, the
\* matched holdings of a directive in holding order, the alert pass last, in
\* holding order), whatever the confidence sort does to the list.
C26_RecIdsNumberGeneration ==
    pc = "generated" =>
        /\ {Recs[i].rec_id : i \in DOMAIN Recs} = {RecId(n) : n \in 1..Len(Recs)}
        /\ \A i, j \in DOMAIN Recs : Recs[i].rec_id = Recs[j].rec_id => i = j
        /\ \A i, j \in DOMAIN Recs :
              GenIndex(Recs[i]) < GenIndex(Recs[j]) =>
                 /\ DirPos(Recs[i]) <= DirPos(Recs[j])
                 /\ (Recs[i].fm_directive_ref = None /\ Recs[j].fm_directive_ref = None) =>
                       FirstHolding(Recs[i].instrument_code)
                          < FirstHolding(Recs[j].instrument_code)
        /\ \A k \in DOMAIN fm_directives :
              fm_directives[k].action \in {"REDUCE_EXPOSURE", "HOLD"} =>
                 CodesOf(DirRecs(k)) \in
                    {<<>>, CodesOf(matching_holdings(fm_directives[k], holdings))}

\* three recommendations, of two directives and of the alert pass, which
\* the confidence sort returns in another order than they were numbered
C26_Witness ==
    /\ pc = "generated"
    /\ Len(Recs) >= 3
    /\ \E i, j \in DOMAIN Recs : i < j /\ GenIndex(Recs[i]) > GenIndex(Recs[j])
    /\ \A k \in DOMAIN fm_directives : Len(DirRecs(k)) >= 1
    /\ Len(fm_directives) = MaxDirectives
    /\ \E r \in Standalone : GenIndex(r) = Len(Recs)

(***************************************************************************)
(* applies_to tags that no test of mock_generate_recommendations names.    *)
(***************************************************************************)
\* the tags the five `continue` tests compare with
TestedTags ==
    {"MOMENTUM_STRATEGY", "CONSERVATIVE_CLIENTS", "AGGRESSIVE_CLIENTS",
     "CLIENTS_WITHOUT_GOLD", "CLIENTS_WITH_GOLD"}
\* other tags of the parser's vocabulary, and None for a tag left null
UntestedTags == {"MODERATE_CLIENTS", "MF_ONLY", "HIGH_AUM", "PMS_CLIENTS", None}

TagDirectives ==
    {Directive("REDUCE_EXPOSURE", "SECTOR", IT, at, <<"5", "0", "%">>) :
        at \in UntestedTags \cup {"ALL_CLIENTS", "CONSERVATIVE_CLIENTS"}}
    \cup {Directive("INCREASE_EXPOSURE", "SECTOR", ENERGY, at, <<>>) :
            at \in {"HIGH_AUM", "ALL_CLIENTS"}}

TagHoldings == {Holding(TCS, IT, 100000, 100), Holding(ONGC, ENERGY, 250000, 125)}

TagClients ==
    {Client(1050, "CONSERVATIVE", "VALUE"), Client(5000000, "AGGRESSIVE", "MOMENTUM"),
     Client(5000000, "MODERATE", "VALUE"), Client(1050, "MODERATE", "MOMENTUM")}

InitTags ==
    InitRecWith({WithIds(ds) : ds \in SeqUpTo(TagDirectives, MaxDirectives)},
                SeqUpTo(TagHoldings, MaxHoldings),
                {TCS :> Signal(-700)}, {<<>>}, TagClients)

SpecTags == InitTags /\ [][NextRec]_vars

\* the directive list with the applies_to of its k-th element replaced
Retagged(ds, k, tag) == [ds EXCEPT ![k].applies_to = tag]

C28_DirectivesBeforeAlerts ==
    pc = "generated" =>
        /\ \A i, j \in DOMAIN Recs :
              (Recs[i].fm_directive_ref # None /\ Recs[j].fm_directive_ref = None) => i < j
        /\ \A i \in DOMAIN Recs :
              IF Recs[i].fm_directive_ref = None THEN Recs[i].confidence = 45
              ELSE Recs[i].confidence \in {85, 75, 70, 60, 55, 50}

\* an alert behind directive-driven recommendations of two directives, the
\* least confident of them at 60 or below
C28_Witness ==
    /\ pc = "generated"
    /\ \E i, j, k \in DOMAIN Recs :
          /\ i < j /\ j < k
          /\ Recs[i].fm_directive_ref # None
          /\ Recs[j].fm_directive_ref # None
          /\ Recs[i].fm_directive_ref # Recs[j].fm_directive_ref
          /\ Recs[j].confidence <= 60
          /\ Recs[k].fm_directive_ref = None

(***************************************************************************)
(* Directives whose action no branch of mock_generate_recommendations      *)
(* handles.                                                                *)
(***************************************************************************)
HandledActions == {"REDUCE_EXPOSURE", "INCREASE_EXPOSURE", "INCREASE_ALLOCATION", "HOLD"}
\* further actions of the parsers' vocabulary
OtherActions == {"SWITCH", "AVOID", "BOOK_PROFITS", "BUY", "SELL", "REVIEW"}

ActionDirectives ==
    {Directive(a, "SECTOR", IT, "ALL_CLIENTS", <<"5", "0", "%">>) : a \in OtherActions}
    \cup {Directive("REDUCE_EXPOSURE", "STOCK", <<"i", "n", "f", "y">>, "ALL_CLIENTS", <<>>),
          Directive("HOLD", "SECTOR", IT, "ALL_CLIENTS", <<>>)}

ActionHoldings == {Holding(TCS, IT, 100000, 100), Holding(INFY, IT, 100001, 75)}

InitActions ==
    InitRecWith({WithIds(ds) : ds \in SeqUpTo(ActionDirectives, MaxDirectives)},
                SeqUpTo(ActionHoldings, MaxHoldings),
                {TCS :> Signal(-700), (TCS :> Signal(-700)) @@ (INFY :> Signal(650))},
                {<<>>}, MixedClients)

SpecActions == InitActions /\ [][NextRec]_vars

\* C29: a directive whose action is none of REDUCE_EXPOSURE,
\* INCREASE_EXPOSURE, INCREASE_ALLOCATION, HOLD produces no recommendation
\* and covers no holding: the result equals the result obtained with the
\* directive removed from the input.
C29_UnhandledActionsIgnored ==
    pc = "generated" =>
        \A k \in DOMAIN fm_directives :
            fm_directives[k].action \notin HandledActions =>
                /\ DirRecs(k) = <<>>
                /\ result = mock_generate_recommendations(
                                Without(fm_directives, k), technical_signals,
                                sector_signals, client, holdings)
                /\ \A i \in DOMAIN holdings :
                      (/\ Matches(fm_directives[k], holdings[i])
                       /\ HasExtremeSignal(holdings[i])
                       /\ \A q \in DOMAIN fm_directives :
                             fm_directives[q].action \in HandledActions =>
                                ~Matches(fm_directives[q], holdings[i])) =>
                         \E r \in Standalone :
                             r.instrument_code = holdings[i].instrument_code

\* a SWITCH directive on IT ahead of a REDUCE_EXPOSURE of INFY: the STRONG
\* TCS holding it matches is left to the alert pass, and the one REDEEM is
\* REC-001
C29_Witness ==
    /\ pc = "generated"
    /\ Len(fm_directives) = 2
    /\ fm_directives[1].action = "SWITCH"
    /\ fm_directives[2].action = "REDUCE_EXPOSURE"
    /\ \E r \in Range(Recs) : r.action = "REDEEM" /\ r.rec_id = RecId(1)
    /\ \E r \in Standalone : r.instrument_code = TCS

(***************************************************************************)
(* run_pipeline from its first step (maestro.py).  The environment also    *)
(* holds what the data files yield (the clients with their holdings, the   *)
(* instruments in the order the set gives them) and what parsing the fund  *)
(* manager's input does.                                                   *)
(***************************************************************************)
ClientIds(g) == {g[i].client.client_id : i \in DOMAIN g}

RunEnvs ==
    {[symbol |-> s, benchmark |-> b,
      sector |-> [x \in Range(Sectors) \ {Sectors[1]} |-> Ok(450)],
      client |-> c, grouped |-> g, unique_instruments |-> u, parse |-> p] :
        g \in Arrangements(PipeClients), u \in Arrangements({TCS_NS, INFY_NS}),
        s \in [{TCS_NS, INFY_NS} -> {Ok(650), Raise}], b \in {Ok(0), Raise},
        c \in [{"C001", "C002"} -> {Ok(0), Raise}], p \in {"ok", "raise", "no_input"}}

InitRun ==
    /\ pc = "load"
    /\ env \in RunEnvs
    /\ unique_instruments = None /\ grouped = None /\ all_results = None /\ idx = 0
    /\ IdleRec
    /\ IdleScore
    /\ IdleAnalyze

NoClientData == [error |-> "No client data found"]

\* Step 1: load_clients_and_holdings; `if not clients: return {"error": ...}`,
\* otherwise group_holdings_by_client.
LoadClients ==
    /\ pc = "load"
    /\ IF env.grouped = <<>>
         THEN /\ result' = NoClientData
              /\ pc' = "done"
              /\ UNCHANGED grouped
         ELSE /\ grouped' = env.grouped
              /\ pc' = "parse"
              /\ UNCHANGED result
    /\ UNCHANGED <<fm_directives, technical_signals, sector_signals, client, holdings, env,
                   unique_instruments, all_results, idx, scoreVars, analyzeVars>>

\* Mutant: an exception in the parser ends the run.
ParseDirectives_Abort ==
    /\ pc = "parse"
    /\ IF env.parse = "raise"
         THEN /\ result' = [error |-> "NLP parsing failed"]
              /\ pc' = "done"
              /\ UNCHANGED fm_directives
         ELSE /\ fm_directives' = IF env.parse = "ok" THEN PipeDirectives ELSE <<>>
              /\ pc' = "analysis"
              /\ UNCHANGED result
    /\ UNCHANGED <<technical_signals, sector_signals, client, holdings,
                   pipeVars, scoreVars, analyzeVars>>

\* Step 2: fm_directives = []; with an input, nlp_agent.parse inside
\* try/except, the except branch setting fm_directives = [].
ParseDirectives ==
    /\ pc = "parse"
    /\ fm_directives' = IF env.parse = "ok" THEN PipeDirectives ELSE <<>>
    /\ pc' = "analysis"
    /\ UNCHANGED <<technical_signals, sector_signals, client, holdings, result,
                   pipeVars, scoreVars, analyzeVars>>

\* Step 3 begins: get_unique_instruments, technical_signals = {}.
StartAnalysis ==
    /\ pc = "analysis"
    /\ unique_instruments' = env.unique_instruments
    /\ technical_signals' = <<>>
    /\ idx' = 1
    /\ pc' = "symbols"
    /\ UNCHANGED <<fm_directives, sector_signals, client, holdings, result, env,
                   grouped, all_results, scoreVars, analyzeVars>>

NextRun ==
    \/ LoadClients \/ ParseDirectives \/ StartAnalysis
    \/ AnalyzeSymbol \/ AnalyzeSectors \/ GenerateForClient \/ CompileResults

SpecRun == InitRun /\ [][NextRun]_vars

\* nothing of the later steps has happened yet
NothingParsed == fm_directives = None
NothingFetched == technical_signals = None /\ sector_signals = None
NothingGenerated == all_results = None

\* C30: run_pipeline loads the clients, then parses the directives, then
\* runs the technical analysis, then generates the recommendations; with no
\* clients loaded it returns an error result before any parsing, fetch or
\* recommendation step; when parsing raises it goes on with an empty
\* directive list, the technical analysis still runs and the result holds
\* one recommendation entry per client.
C30_PipelineOrder ==
    [][/\ pc = "load" =>
             /\ NothingParsed /\ NothingFetched /\ NothingGenerated
             /\ pc' \in {"parse", "done"}
             /\ (env.grouped = <<>>) <=> (pc' = "done")
             /\ pc' = "done" =>
                   /\ result' = NoClientData
                   /\ NothingParsed' /\ NothingFetched' /\ NothingGenerated'
       /\ pc = "parse" =>
             /\ NothingParsed /\ NothingFetched /\ NothingGenerated
             /\ pc' = "analysis"
             /\ env.parse = "raise" => fm_directives' = <<>>
             /\ NothingFetched' /\ NothingGenerated'
       /\ pc = "analysis" =>
             /\ NothingFetched /\ NothingGenerated
             /\ pc' = "symbols"
       /\ pc = "symbols" =>
             /\ NothingGenerated
             /\ pc' \in {"symbols", "batch"}
       /\ pc = "batch" =>
             /\ pc' \in {"batch", "done"}
             /\ (pc' = "done" /\ env.parse = "raise") =>
                   /\ result'.fm_directives = <<>>
                   /\ result'.technical_signals_count =
                         Cardinality({x \in Range(unique_instruments) :
                                         env.symbol[x].kind # "raise"})
                   /\ Len(result'.recommendations) = Len(env.grouped)
                   /\ \A i \in DOMAIN env.grouped :
                         result'.recommendations[i].client_summary.client_id
                            = env.grouped[i].client.client_id]_vars

\* a run whose parser raised, ended with two clients' entries and a
\* technical signal
C30_Witness ==
    /\ pc = "done"
    /\ env.parse = "raise"
    /\ Len(env.grouped) = 2
    /\ result.fm_directives = <<>>
    /\ Len(result.recommendations) = 2
    /\ result.technical_signals_count >= 1

====
